---- MODULE Spec2Model ----
(***************************************************************************)
(* Model of unmanic's Foreman (src/unmanic/libs/foreman.py): the dispatch  *)
(* loop, the idle-worker semaphore, group-driven pool reconciliation, the  *)
(* event scheduler and the configuration-change gate.                      *)
(*                                                                         *)
(* The Worker class, the WorkerGroup store, the Library/Plugins stores and *)
(* the pending-task queue are collaborators of Foreman.  Worker is code of *)
(* the repository that is not among the source files; its behaviour is    *)
(* taken from the specification (sections 4.1 and 4.2).                    *)
(***************************************************************************)
EXTENDS Integers, Sequences, FiniteSets, TLC

(***************************************************************************)
(* Bounds of the model.                                                    *)
(***************************************************************************)
\* largest number_of_workers a configuration edit or a schedule may set
MaxCount == 2
\* number of tasks in the pending source at start
MaxTasks == 2
\* last value of the clock, in ticks of 30 seconds since 00:00:00
MaxNow == 3
\* cap of the idle_workers semaphore in the model (the code has none)
MaxSem == 3

(***************************************************************************)
(* Program constants.                                                      *)
(***************************************************************************)
\* "The max number of supported workers is 12" (range(n, 12))
MaxSupportedWorkers == 12
\* self.scheduler.every(30).seconds.do(self.manage_event_schedules), in ticks
ScheduleInterval == 1
\* self.scheduler.every(60).seconds.do(self.prune_dead_threads), in ticks
PruneInterval == 2

NoTask == 0
Tasks == 1..MaxTasks
Days == <<"monday", "tuesday", "wednesday", "thursday", "friday", "saturday", "sunday">>

VARIABLES
    \* ---- Foreman.run: position and locals
    pc,                 \* "start", "loop", "acquire", "get", "assign", "done"
    task,               \* the task run() holds between get() and add_work()
    valid,              \* result of the latest validate_worker_config()
    \* ---- Foreman fields
    worker_threads,     \* self.worker_threads: handle id -> worker
    thread_order,       \* insertion order of the keys of self.worker_threads
    idle_workers,       \* self.idle_workers: the semaphore's count
    abort_flag,         \* self.abort_flag
    settings_hash,      \* self.current_config['settings_hash']
    last_schedule_run,  \* self.last_schedule_run
    next_run,           \* scheduler jobs: ticks until each job is due
    \* ---- collaborators
    pendingtasks,       \* data_queues["pendingtasks"]: queued tasks
    queue_shutdown,     \* pendingtasks.shutdown() was called
    complete_queue,     \* data_queues["processedtasks"]
    worker_groups,      \* WorkerGroup.get_all_worker_groups()
    library_config,     \* Library/plugin configuration (an abstract version)
    incompatible,       \* PluginsHandler.get_incompatible_enabled_plugins() non-empty
    over_limit,         \* not Library.within_library_count_limits()
    now,                \* wall clock, in ticks of 30 seconds since 00:00:00
    day_of_week,        \* datetime.today().weekday()
    \* ---- history
    seen_config,        \* library_config as it was at the latest validation
    reconciled,         \* init_worker_threads ran after the latest group edit / terminate
    fired,              \* run_task executions per schedule in the current minute
    killed,             \* tasks whose worker exited while holding them
    \* ---- other threads, statement by statement
    caller,             \* an API thread inside init_worker_threads(): the handles
                        \* it has still to mark and the idle flag it has read
    stop_pc,            \* the thread inside stop(): "idle", "release", "shutdown",
                        \* "mark", "done"
    scan                \* an API thread inside pause_all_worker_threads(): the
                        \* iterator it holds on worker_threads

vars == <<pc, task, valid, worker_threads, thread_order, idle_workers, abort_flag,
          settings_hash, last_schedule_run, next_run, pendingtasks, queue_shutdown,
          complete_queue, worker_groups, library_config, incompatible, over_limit,
          now, day_of_week, seen_config, reconciled, fired, killed, caller, stop_pc, scan>>

(***************************************************************************)
(* Small helpers.                                                          *)
(***************************************************************************)
Min(a, b) == IF a <= b THEN a ELSE b

Range(s) == {s[i] : i \in 1..Len(s)}

\* s without the elements outside keep, order kept
RECURSIVE SelectIn(_, _)
SelectIn(s, keep) ==
    IF s = <<>> THEN <<>>
    ELSE IF Head(s) \in keep THEN <<Head(s)>> \o SelectIn(Tail(s), keep)
    ELSE SelectIn(Tail(s), keep)

(***************************************************************************)
(* Worker (specification 4.2).  A handle is a record; `work` is the set of *)
(* tasks handed to it and not yet completed.                               *)
(***************************************************************************)
\* "{}-{}".format(name, i)
WorkerId(name, i) == <<name, i>>

\* "{}-Worker-{}".format(name, i + 1)
WorkerName(name, i) == <<name, "Worker", i + 1>>

\* Worker(worker_id, worker_name, worker_group, ...) once started
NewWorker(worker_name, group_id) ==
    [name |-> worker_name, worker_group_id |-> group_id, alive |-> TRUE,
     idle |-> TRUE, paused |-> FALSE, redundant |-> "no", work |-> {}]

\* Worker.can_accept_work(): idle, alive, not paused
CanAcceptWork(w) == w.idle /\ w.alive /\ ~w.paused

\* Worker.add_work(task): idle -> running
AddWork(w, t) == [w EXCEPT !.work = @ \cup {t}, !.idle = FALSE]

\* Worker.set_redundant(immediate)
SetRedundant(w, immediate) ==
    [w EXCEPT !.redundant = IF immediate THEN "immediate" ELSE "pending"]

\* Worker.pause() / Worker.unpause() / Worker.is_paused()
Pause(w) == [w EXCEPT !.paused = TRUE]

Unpause(w) == [w EXCEPT !.paused = FALSE]

IsPaused(w) == w.paused

(***************************************************************************)
(* The pool: P = [wt |-> worker_threads, ord |-> key order,                *)
(*                sem |-> idle_workers].                                   *)
(***************************************************************************)
Pool == [wt |-> worker_threads, ord |-> thread_order, sem |-> idle_workers]

\* Foreman.mark_worker_thread_as_redundant(worker_id, immediate)
MarkWorkerThreadAsRedundant(P, id, immediate) ==
    [P EXCEPT !.wt[id] = SetRedundant(@, immediate)]

\* Foreman.prune_dead_threads()
\* a pruning pass that deletes nothing
PruneDeadThreadsNone(P) == P

PruneDeadThreads(P) ==
    LET live == {id \in DOMAIN P.wt : P.wt[id].alive}
    IN  [P EXCEPT !.wt = [id \in live |-> P.wt[id]],
                  !.ord = SelectIn(P.ord, live)]

\* Foreman.start_worker_thread(worker_id, worker_name, worker_group): the
\* started worker reports idle once (specification 4.1 and 4.3)
StartWorkerThread(P, id, worker_name, group_id) ==
    [wt  |-> [k \in DOMAIN P.wt \cup {id} |->
                 IF k = id THEN NewWorker(worker_name, group_id) ELSE P.wt[k]],
     ord |-> IF id \in DOMAIN P.wt THEN P.ord ELSE Append(P.ord, id),
     sem |-> P.sem + 1]

\* FetchAvailableWorkerIds without the test of the paused flag
FetchAvailableWorkerIdsIgnoringPause(wt, order) ==
    SelectIn(order, {id \in DOMAIN wt : wt[id].idle /\ wt[id].alive})

\* Foreman.fetch_available_worker_ids(): the ids of the handles that are idle,
\* alive and not paused, in the order of the pool map
FetchAvailableWorkerIds(wt, order) ==
    SelectIn(order, {id \in DOMAIN wt : wt[id].idle /\ wt[id].alive /\ ~wt[id].paused})

\* Foreman.check_for_idle_workers()
CheckForIdleWorkers(wt) ==
    \E id \in DOMAIN wt : wt[id].idle /\ wt[id].alive /\ ~wt[id].paused

\* Foreman.pause_worker_thread(worker_id): the pool afterwards
PauseWorkerThread(P, id) ==
    IF id \notin DOMAIN P.wt THEN P
    ELSE IF ~IsPaused(P.wt[id]) THEN [P EXCEPT !.wt[id] = Pause(@)]
    ELSE P

\* Foreman.resume_worker_thread(worker_id): the pool afterwards
ResumeWorkerThread(P, id) ==
    IF id \notin DOMAIN P.wt THEN P
    ELSE [P EXCEPT !.wt[id] = Unpause(@)]

\* the handles a pause-all / resume-all pass visits: every handle when
\* worker_group_id is None (modelled as 0, equally falsy), else the group's
InGroupScope(w, worker_group_id) ==
    ~(worker_group_id # 0 /\ w.worker_group_id # worker_group_id)

\* PauseAllWorkerThreads without the limit by worker group
PauseAllWorkerThreadsOfEveryGroup(P, worker_group_id) ==
    [P EXCEPT !.wt = [id \in DOMAIN P.wt |-> PauseWorkerThread(P, id).wt[id]]]

\* Foreman.pause_all_worker_threads(worker_group_id=None)
PauseAllWorkerThreads(P, worker_group_id) ==
    [P EXCEPT !.wt = [id \in DOMAIN P.wt |->
        IF InGroupScope(P.wt[id], worker_group_id)
        THEN PauseWorkerThread(P, id).wt[id] ELSE P.wt[id]]]

\* Foreman.resume_all_worker_threads(worker_group_id=None)
ResumeAllWorkerThreads(P, worker_group_id) ==
    [P EXCEPT !.wt = [id \in DOMAIN P.wt |->
        IF InGroupScope(P.wt[id], worker_group_id)
        THEN ResumeWorkerThread(P, id).wt[id] ELSE P.wt[id]]]

(***************************************************************************)
(* Pool reconciliation: Foreman.init_worker_threads().                     *)
(***************************************************************************)
\* MarkRedundantByIdle that does not look at the idle flag
MarkRedundantImmediately(P, id) == MarkWorkerThreadAsRedundant(P, id, TRUE)

\* is_idle = self.worker_threads[id].idle;
\* self.mark_worker_thread_as_redundant(id, immediate=is_idle)
MarkRedundantByIdle(P, id) ==
    LET is_idle == P.wt[id].idle
    IN  MarkWorkerThreadAsRedundant(P, id, is_idle)

\* CreateThreads without "if worker_id not in self.worker_threads"
RECURSIVE CreateThreadsAlways(_, _, _)
CreateThreadsAlways(P, g, i) ==
    IF i >= g.number_of_workers THEN P
    ELSE CreateThreadsAlways(
             StartWorkerThread(P, WorkerId(g.name, i), WorkerName(g.name, i), g.id),
             g, i + 1)

\* "Create threads as required": for i in range(number_of_workers), from i on
RECURSIVE CreateThreads(_, _, _)
CreateThreads(P, g, i) ==
    IF i >= g.number_of_workers THEN P
    ELSE LET worker_id == WorkerId(g.name, i)
             worker_name == WorkerName(g.name, i)
         IN  CreateThreads(IF worker_id \notin DOMAIN P.wt
                           THEN StartWorkerThread(P, worker_id, worker_name, g.id)
                           ELSE P,
                           g, i + 1)

\* "Remove any workers that do not belong": for i in range(number_of_workers, 12)
RECURSIVE RemoveThreads(_, _, _)
RemoveThreads(P, g, i) ==
    IF i >= MaxSupportedWorkers THEN P
    ELSE LET worker_id == WorkerId(g.name, i)
         IN  RemoveThreads(IF worker_id \in DOMAIN P.wt
                           THEN MarkRedundantByIdle(P, worker_id)
                           ELSE P,
                           g, i + 1)

\* the loop over WorkerGroup.get_all_worker_groups(), from group k on
RECURSIVE ReconcileGroups(_, _, _)
ReconcileGroups(P, G, k) ==
    IF k > Len(G) THEN P
    ELSE ReconcileGroups(
             RemoveThreads(CreateThreads(P, G[k], 0), G[k], G[k].number_of_workers),
             G, k + 1)

\* worker_group_ids and worker_group_names as the loop collects them
ExpectedGroupIds(G) == {G[k].id : k \in 1..Len(G)}

ExpectedWorkerNames(G) ==
    UNION {{WorkerName(G[k].name, i) : i \in 0..(G[k].number_of_workers - 1)} :
           k \in 1..Len(G)}

\* RemoveOrphans that marks nothing
RemoveOrphansNone(P, G) == P

\* "Remove workers for groups that no longer exist"
RemoveOrphans(P, G) ==
    LET orphan(id) == P.wt[id].worker_group_id \notin ExpectedGroupIds(G)
                      \/ P.wt[id].name \notin ExpectedWorkerNames(G)
    IN  [P EXCEPT !.wt = [id \in DOMAIN P.wt |->
            IF orphan(id) THEN MarkRedundantByIdle(P, id).wt[id] ELSE P.wt[id]]]

\* Foreman.init_worker_threads()
\* a reconciliation that prunes after its other steps
InitWorkerThreadsPruningLast(P, G) ==
    PruneDeadThreads(RemoveOrphans(ReconcileGroups(P, G, 1), G))

InitWorkerThreads(P, G) ==
    RemoveOrphans(ReconcileGroups(PruneDeadThreads(P), G, 1), G)

(***************************************************************************)
(* Configuration-change gate.                                              *)
(***************************************************************************)
\* hashlib.md5(json.dumps(settings, sort_keys=True).encode()).hexdigest():
\* a non-empty digest, different for different configurations
SettingsHash(config) == <<"md5", config>>

\* the initial current_config['settings_hash'] = ''
EmptyHash == <<>>

\* Foreman.save_current_config(settings_hash=h): "if settings_hash:"
SaveCurrentConfig(old_hash, h) == IF h # EmptyHash THEN h ELSE old_hash

\* ConfigurationChanged that does not record the new hash
ConfigurationChangedNoSave(old_hash, config) ==
    [changed |-> SettingsHash(config) # old_hash, hash |-> old_hash]

\* Foreman.configuration_changed(): [changed, hash]
ConfigurationChanged(old_hash, config) ==
    LET current_settings_hash == SettingsHash(config)
    IN  IF current_settings_hash = old_hash
        THEN [changed |-> FALSE, hash |-> old_hash]
        ELSE [changed |-> TRUE,
              hash |-> SaveCurrentConfig(old_hash, current_settings_hash)]

\* ValidateWorkerConfig that returns at the first check that fails
ValidateWorkerConfigShortCircuit(old_hash, config, incompat, limit) ==
    LET cc == ConfigurationChanged(old_hash, config)
    IN  IF incompat THEN [valid |-> FALSE, hash |-> old_hash, warning |-> FALSE]
        ELSE [valid |-> ~cc.changed /\ ~limit, hash |-> cc.hash, warning |-> cc.changed]

\* Foreman.validate_worker_config(): [valid, hash, warning], warning being
\* whether the message pluginSettingsChangeWorkersStopped was put
ValidateWorkerConfig(old_hash, config, incompat, limit) ==
    LET cc == ConfigurationChanged(old_hash, config)
    IN  [valid |-> ~incompat /\ ~cc.changed /\ ~limit, hash |-> cc.hash,
         warning |-> cc.changed]

(***************************************************************************)
(* Event scheduler: Foreman.manage_event_schedules() and run_task().       *)
(* A scheduler state is S = [P, G, did, lsr, fired]: the pool, the         *)
(* WorkerGroup store, did_something, last_schedule_run and the history of  *)
(* executions.                                                             *)
(***************************************************************************)
\* datetime.today().strftime('%H:%M') at tick t: <<HH, MM>>
TimeNow(t) == <<(t \div 120) % 24, (t \div 2) % 60>>

\* cap of the history counter `fired`
MaxFired == 2

\* one more execution of schedule key in the history
Bump(f, key) ==
    [x \in DOMAIN f \cup {key} |->
        IF x = key THEN Min((IF key \in DOMAIN f THEN f[key] ELSE 0) + 1, MaxFired)
        ELSE f[x]]

\* Foreman.run_task(time_now, task, worker_count, worker_group) for schedule j
\* of group k
RunTask(S, time_now, k, j) ==
    LET g == S.G[k]
        e == g.schedules[j]
        worker_group_id == g.id
        S1 == [S EXCEPT !.lsr = time_now, !.fired = Bump(@, <<g.id, j>>)]
    IN  IF e.schedule_task = "pause"
        THEN [S1 EXCEPT !.P = PauseAllWorkerThreads(@, worker_group_id)]
        ELSE IF e.schedule_task = "resume"
        THEN [S1 EXCEPT !.P = ResumeAllWorkerThreads(@, worker_group_id)]
        ELSE IF e.schedule_task = "count"
        THEN [S1 EXCEPT !.G[k].number_of_workers = e.schedule_worker_count]
        ELSE S1

\* RepetitionMatches without the tests of the day for 'weekday' and 'weekend'
RepetitionMatchesAnyDay(repetition, day) ==
    \/ repetition \in {"daily", "weekday", "weekend"}
    \/ repetition = Days[day + 1]

\* the repetition tests of manage_event_schedules ("Check if it should run")
RepetitionMatches(repetition, day) ==
    \/ repetition = "daily"
    \/ repetition = "weekday" /\ Days[day + 1] \notin {"saturday", "sunday"}
    \/ repetition = "weekend" /\ Days[day + 1] \in {"saturday", "sunday"}
    \/ repetition = Days[day + 1]

\* whether schedule e runs at time_now on day
ScheduleIsDue(e, time_now, day) ==
    /\ e.schedule_time # <<>>
    /\ time_now = e.schedule_time
    /\ e.repetition # ""
    /\ RepetitionMatches(e.repetition, day)

\* RunSchedules with an init_worker_threads after every action
RECURSIVE RunSchedulesReconciling(_, _, _, _, _, _)
RunSchedulesReconciling(S, event_schedules, k, j, time_now, day) ==
    IF j > Len(event_schedules) THEN S
    ELSE RunSchedulesReconciling(
             IF ScheduleIsDue(event_schedules[j], time_now, day)
             THEN LET S1 == RunTask(S, time_now, k, j)
                  IN  [S1 EXCEPT !.did = TRUE, !.P = InitWorkerThreads(S1.P, S1.G)]
             ELSE S,
             event_schedules, k, j + 1, time_now, day)

\* "for event_schedule in event_schedules", from schedule j of group k on; the
\* list was read before the loop
RECURSIVE RunSchedules(_, _, _, _, _, _)
RunSchedules(S, event_schedules, k, j, time_now, day) ==
    IF j > Len(event_schedules) THEN S
    ELSE RunSchedules(IF ScheduleIsDue(event_schedules[j], time_now, day)
                      THEN [RunTask(S, time_now, k, j) EXCEPT !.did = TRUE]
                      ELSE S,
                      event_schedules, k, j + 1, time_now, day)

\* "for wg in WorkerGroup.get_all_worker_groups()", from group k on
RECURSIVE RunGroupSchedules(_, _, _, _)
RunGroupSchedules(S, k, time_now, day) ==
    IF k > Len(S.G) THEN S
    ELSE RunGroupSchedules(RunSchedules(S, S.G[k].schedules, k, 1, time_now, day),
                           k + 1, time_now, day)

\* Foreman.manage_event_schedules()
ManageEventSchedules(S, t, day) ==
    LET S1 == RunGroupSchedules([S EXCEPT !.did = FALSE], 1, TimeNow(t), day)
    IN  IF S1.did THEN [S1 EXCEPT !.P = InitWorkerThreads(S1.P, S1.G)] ELSE S1

\* self.scheduler.run_pending(): every job whose time has come runs and is
\* scheduled again one interval later.  Both jobs due, their order does not
\* change the outcome (init_worker_threads prunes first).
RunPending(S, nr, t, day) ==
    LET S1 == IF nr.schedules = 0 THEN ManageEventSchedules(S, t, day) ELSE S
        S2 == IF nr.prune = 0 THEN [S1 EXCEPT !.P = PruneDeadThreads(@)] ELSE S1
    IN  [S |-> S2,
         nr |-> [schedules |-> IF nr.schedules = 0 THEN ScheduleInterval ELSE nr.schedules,
                 prune |-> IF nr.prune = 0 THEN PruneInterval ELSE nr.prune]]

SchedulerState ==
    [P |-> Pool, G |-> worker_groups, did |-> FALSE, lsr |-> last_schedule_run,
     fired |-> fired]

(***************************************************************************)
(* Foreman.run(): the dispatch loop, one action per blocking step.         *)
(***************************************************************************)
\* what a step of run() leaves alone besides the pool and its own locals
UnchangedEnv ==
    UNCHANGED <<pendingtasks, queue_shutdown, complete_queue, library_config,
                incompatible, over_limit, now, day_of_week, killed,
                   caller, stop_pc, scan>>

\* the pool is computed once and bound to Q
SetPool(P) ==
    \E Q \in {P} :
        /\ Q.sem <= MaxSem
        /\ worker_threads' = Q.wt
        /\ thread_order' = Q.ord
        /\ idle_workers' = Q.sem

\* validate_worker_config() and "if not valid: pause_all_worker_threads()"
ValidateAndPause(P) ==
    \E V \in {ValidateWorkerConfig(settings_hash, library_config, incompatible, over_limit)} :
        /\ SetPool(IF V.valid THEN P ELSE PauseAllWorkerThreads(P, 0))
        /\ valid' = V.valid
        /\ settings_hash' = V.hash
        /\ seen_config' = library_config

\* run(), before the loop: init_worker_threads(), then the first validation
RunStart ==
    /\ pc = "start"
    /\ ValidateAndPause(InitWorkerThreads(Pool, worker_groups))
    /\ reconciled' = TRUE
    /\ pc' = "loop"
    /\ UNCHANGED <<task, abort_flag, last_schedule_run, next_run, worker_groups, fired>>
    /\ UnchangedEnv

\* "while not self.abort_flag.is_set()": the loop is left
LoopExit ==
    /\ pc = "loop"
    /\ abort_flag
    /\ pc' = "done"
    /\ UNCHANGED <<task, valid, worker_threads, thread_order, idle_workers, abort_flag,
                   settings_hash, last_schedule_run, next_run, worker_groups,
                   seen_config, reconciled, fired>>
    /\ UnchangedEnv

\* LoopTop without the "continue" of the failure branch
LoopTopNoContinue ==
    /\ pc = "loop"
    /\ ~abort_flag
    /\ \E R \in {RunPending(SchedulerState, next_run, now, day_of_week)} :
           /\ ValidateAndPause(R.S.P)
           /\ worker_groups' = R.S.G
           /\ last_schedule_run' = R.S.lsr
           /\ fired' = R.S.fired
           /\ next_run' = R.nr
           /\ reconciled' = (reconciled \/ R.S.did)
    /\ pc' = "acquire"
    /\ UNCHANGED <<task, abort_flag>>
    /\ UnchangedEnv

\* top of an iteration: scheduler.run_pending(), validate_worker_config(), and on
\* failure pause_all_worker_threads(); event.wait(1); continue
LoopTop ==
    /\ pc = "loop"
    /\ ~abort_flag
    /\ \E R \in {RunPending(SchedulerState, next_run, now, day_of_week)} :
           /\ ValidateAndPause(R.S.P)
           /\ worker_groups' = R.S.G
           /\ last_schedule_run' = R.S.lsr
           /\ fired' = R.S.fired
           /\ next_run' = R.nr
           /\ reconciled' = (reconciled \/ R.S.did)
    /\ pc' = IF valid' THEN "acquire" ELSE "loop"
    /\ UNCHANGED <<task, abort_flag>>
    /\ UnchangedEnv

\* AcquireIdle that leaves the semaphore's count as it is
AcquireIdleNoDecrement ==
    /\ pc = "acquire"
    /\ idle_workers > 0
    /\ pc' = IF abort_flag THEN "done" ELSE "get"
    /\ UNCHANGED <<task, valid, worker_threads, thread_order, idle_workers, abort_flag,
                   settings_hash, last_schedule_run, next_run, worker_groups,
                   seen_config, reconciled, fired>>
    /\ UnchangedEnv

\* self.idle_workers.acquire(timeout=15) succeeds; "if abort_flag: break"
AcquireIdle ==
    /\ pc = "acquire"
    /\ idle_workers > 0
    /\ idle_workers' = idle_workers - 1
    /\ pc' = IF abort_flag THEN "done" ELSE "get"
    /\ UNCHANGED <<task, valid, worker_threads, thread_order, abort_flag, settings_hash,
                   last_schedule_run, next_run, worker_groups, seen_config, reconciled,
                   fired>>
    /\ UnchangedEnv

\* AcquireTimeout of an acquire() without timeout: the wait never ends
AcquireWithoutTimeout ==
    /\ pc = "acquire"
    /\ idle_workers = 0
    /\ UNCHANGED vars

\* self.idle_workers.acquire(timeout=15) times out
AcquireTimeout ==
    /\ pc = "acquire"
    /\ idle_workers = 0
    /\ pc' = "loop"
    /\ UNCHANGED <<task, valid, worker_threads, thread_order, idle_workers, abort_flag,
                   settings_hash, last_schedule_run, next_run, worker_groups,
                   seen_config, reconciled, fired>>
    /\ UnchangedEnv

\* task = self.pendingtasks.get(timeout=15) returns a task
GetTask ==
    /\ pc = "get"
    /\ ~queue_shutdown
    /\ pendingtasks # <<>>
    /\ task' = Head(pendingtasks)
    /\ pendingtasks' = Tail(pendingtasks)
    /\ pc' = "assign"
    /\ UNCHANGED <<valid, worker_threads, thread_order, idle_workers, abort_flag,
                   settings_hash, last_schedule_run, next_run, worker_groups,
                   seen_config, reconciled, fired>>
    /\ UNCHANGED <<queue_shutdown, complete_queue, library_config, incompatible,
                   over_limit, now, day_of_week, killed,
                   caller, stop_pc, scan>>

\* get() raises queue.Empty: self.idle_workers.release(); continue
GetEmpty ==
    /\ pc = "get"
    /\ ~queue_shutdown
    /\ pendingtasks = <<>>
    /\ idle_workers' = idle_workers + 1
    /\ pc' = "loop"
    /\ UNCHANGED <<task, valid, worker_threads, thread_order, abort_flag, settings_hash,
                   last_schedule_run, next_run, worker_groups, seen_config, reconciled,
                   fired>>
    /\ UnchangedEnv

\* get() raises queue.ShutDown: break
GetShutDown ==
    /\ pc = "get"
    /\ queue_shutdown
    /\ pc' = "done"
    /\ UNCHANGED <<task, valid, worker_threads, thread_order, idle_workers, abort_flag,
                   settings_hash, last_schedule_run, next_run, worker_groups,
                   seen_config, reconciled, fired>>
    /\ UnchangedEnv

\* the handles of order that can accept work, in order
Acceptors(wt, order) == SelectIn(order, {id \in DOMAIN wt : CanAcceptWork(wt[id])})

\* AssignTask without the break: every worker that can accept gets the task
AssignTaskNoBreak(wt, order, t) ==
    [id \in DOMAIN wt |-> IF CanAcceptWork(wt[id]) THEN AddWork(wt[id], t) ELSE wt[id]]

\* "for thread in self.worker_threads.values(): if thread.can_accept_work():
\*  thread.add_work(task); break  else: pass": the pool map afterwards
AssignTask(wt, order, t) ==
    LET acc == Acceptors(wt, order)
    IN  IF acc # <<>> THEN [wt EXCEPT ![Head(acc)] = AddWork(@, t)] ELSE wt

\* the scan for a worker for the task in hand
Assign ==
    /\ pc = "assign"
    /\ worker_threads' = AssignTask(worker_threads, thread_order, task)
    /\ task' = NoTask
    /\ pc' = "loop"
    /\ UNCHANGED <<valid, thread_order, idle_workers, abort_flag, settings_hash,
                   last_schedule_run, next_run, worker_groups, seen_config, reconciled,
                   fired>>
    /\ UnchangedEnv

(***************************************************************************)
(* Worker threads (specification 4.2).                                     *)
(***************************************************************************)
\* running -> idle: the result goes to the completion sink, then the worker
\* reports idle
WorkerComplete(id) ==
    /\ id \in DOMAIN worker_threads
    /\ worker_threads[id].alive
    /\ ~worker_threads[id].idle
    /\ idle_workers + 1 <= MaxSem
    /\ complete_queue' = complete_queue \cup worker_threads[id].work
    /\ worker_threads' = [worker_threads EXCEPT ![id].work = {}, ![id].idle = TRUE]
    /\ idle_workers' = idle_workers + 1
    /\ UNCHANGED <<pc, task, valid, thread_order, abort_flag, settings_hash,
                   last_schedule_run, next_run, pendingtasks, queue_shutdown,
                   worker_groups, library_config, incompatible, over_limit, now,
                   day_of_week, seen_config, reconciled, fired, killed,
                   caller, stop_pc, scan>>

\* whether a redundant worker leaves now: at once when immediate, after its
\* current task when pending
MayExit(w) ==
    /\ w.alive
    /\ \/ w.redundant = "immediate"
       \/ w.redundant = "pending" /\ w.idle

\* redundant-* -> terminated
WorkerExit(id) ==
    /\ id \in DOMAIN worker_threads
    /\ MayExit(worker_threads[id])
    /\ worker_threads' = [worker_threads EXCEPT ![id].alive = FALSE, ![id].work = {}]
    /\ killed' = killed \cup worker_threads[id].work
    /\ UNCHANGED <<pc, task, valid, thread_order, idle_workers, abort_flag, settings_hash,
                   last_schedule_run, next_run, pendingtasks, queue_shutdown,
                   complete_queue, worker_groups, library_config, incompatible,
                   over_limit, now, day_of_week, seen_config, reconciled, fired,
                   caller, stop_pc, scan>>

(***************************************************************************)
(* Calls from other threads: the service and the API.                      *)
(***************************************************************************)
\* stop(): every handle in the pool is marked redundant, immediate=False
RECURSIVE MarkAllRedundant(_, _)
MarkAllRedundant(P, thread_keys) ==
    IF thread_keys = <<>> THEN P
    ELSE MarkAllRedundant(MarkWorkerThreadAsRedundant(P, Head(thread_keys), FALSE),
                          Tail(thread_keys))

\* Foreman.stop(), called once on a Foreman whose run() has begun;
\* pendingtasks.shutdown(immediate=True) empties the queue
Stop ==
    /\ pc # "start"
    /\ ~abort_flag
    /\ abort_flag' = TRUE
    /\ SetPool(MarkAllRedundant([Pool EXCEPT !.sem = @ + 1], thread_order))
    /\ queue_shutdown' = TRUE
    /\ pendingtasks' = <<>>
    /\ UNCHANGED <<pc, task, valid, settings_hash, last_schedule_run, next_run,
                   complete_queue, worker_groups, library_config, incompatible,
                   over_limit, now, day_of_week, seen_config, reconciled, fired, killed,
                   caller, stop_pc, scan>>

\* what an administrative call on the pool leaves alone
UnchangedByAdmin ==
    UNCHANGED <<pc, task, valid, abort_flag, settings_hash, last_schedule_run, next_run,
                pendingtasks, queue_shutdown, complete_queue, worker_groups,
                library_config, incompatible, over_limit, now, day_of_week,
                seen_config, fired, killed,
                   caller, stop_pc, scan>>

\* Foreman.pause_worker_thread(worker_id) from the API
PauseWorker(id) ==
    /\ id \in DOMAIN worker_threads
    /\ ~worker_threads[id].paused
    /\ SetPool(PauseWorkerThread(Pool, id))
    /\ UNCHANGED reconciled
    /\ UnchangedByAdmin

\* Foreman.resume_worker_thread(worker_id) from the API
ResumeWorker(id) ==
    /\ id \in DOMAIN worker_threads
    /\ worker_threads[id].paused
    /\ SetPool(ResumeWorkerThread(Pool, id))
    /\ UNCHANGED reconciled
    /\ UnchangedByAdmin

\* Foreman.terminate_worker_thread(worker_id): the pool afterwards
TerminateWorkerThread(P, id) ==
    IF id \notin DOMAIN P.wt THEN P ELSE MarkWorkerThreadAsRedundant(P, id, FALSE)

\* Foreman.terminate_worker_thread(worker_id) from the API
TerminateWorker(id) ==
    /\ id \in DOMAIN worker_threads
    /\ worker_threads[id].alive
    /\ worker_threads[id].redundant # "pending"
    /\ SetPool(TerminateWorkerThread(Pool, id))
    /\ reconciled' = FALSE
    /\ UnchangedByAdmin

\* Foreman.on_worker_config_changed() from the API
OnWorkerConfigChanged ==
    /\ pc # "start"
    /\ SetPool(InitWorkerThreads(Pool, worker_groups))
    /\ reconciled' = TRUE
    /\ UnchangedByAdmin

(***************************************************************************)
(* The environment: configuration edits and the clock.                     *)
(***************************************************************************)
\* an edit of group k's number_of_workers in the WorkerGroup store
SetNumberOfWorkers(k, n) ==
    /\ k \in 1..Len(worker_groups)
    /\ n # worker_groups[k].number_of_workers
    /\ worker_groups' = [worker_groups EXCEPT ![k].number_of_workers = n]
    /\ reconciled' = FALSE
    /\ UNCHANGED <<pc, task, valid, worker_threads, thread_order, idle_workers,
                   abort_flag, settings_hash, last_schedule_run, next_run, pendingtasks,
                   queue_shutdown, complete_queue, library_config, incompatible,
                   over_limit, now, day_of_week, seen_config, fired, killed,
                   caller, stop_pc, scan>>

\* 30 seconds pass
Tick ==
    /\ now < MaxNow
    /\ now' = now + 1
    /\ next_run' = [j \in DOMAIN next_run |-> IF next_run[j] > 0 THEN next_run[j] - 1 ELSE 0]
    /\ fired' = IF TimeNow(now') # TimeNow(now) THEN [x \in {} |-> 0] ELSE fired
    /\ UNCHANGED <<pc, task, valid, worker_threads, thread_order, idle_workers,
                   abort_flag, settings_hash, last_schedule_run, pendingtasks,
                   queue_shutdown, complete_queue, worker_groups, library_config,
                   incompatible, over_limit, day_of_week, seen_config, reconciled,
                   killed,
                   caller, stop_pc, scan>>

(***************************************************************************)
(* The pool and dispatch specification: one worker group without           *)
(* schedules, a stable library configuration.                              *)
(***************************************************************************)
Group(id, name, n, schedules) ==
    [id |-> id, name |-> name, number_of_workers |-> n, schedules |-> schedules]

\* the state after Foreman.__init__, which records the configuration's hash
\* no pass of pause_all_worker_threads() is in progress
NoScan == [active |-> FALSE, keys |-> <<>>, todo |-> <<>>]

InitForeman ==
    /\ pc = "start"
    /\ task = NoTask
    /\ valid = FALSE
    /\ worker_threads = [id \in {} |-> 0]
    /\ thread_order = <<>>
    /\ idle_workers = 0
    /\ abort_flag = FALSE
    /\ settings_hash = ConfigurationChanged(EmptyHash, library_config).hash
    /\ last_schedule_run = <<>>
    /\ next_run = [schedules |-> ScheduleInterval, prune |-> PruneInterval]
    /\ queue_shutdown = FALSE
    /\ complete_queue = {}
    /\ now = 0
    /\ seen_config = library_config
    /\ reconciled = FALSE
    /\ fired = [x \in {} |-> 0]
    /\ killed = {}
    /\ caller = [todo |-> <<>>, is_idle |-> <<>>]
    /\ stop_pc = "idle"
    /\ scan = NoScan

Init ==
    /\ library_config = 0
    /\ incompatible = FALSE
    /\ over_limit = FALSE
    /\ day_of_week = 0
    /\ pendingtasks = [i \in 1..MaxTasks |-> i]
    /\ \E n \in 1..MaxCount : worker_groups = <<Group(1, "A", n, <<>>)>>
    /\ InitForeman

\* the steps of run() while no abort is signalled
DispatchStep ==
    \/ RunStart
    \/ LoopTop
    \/ AcquireIdle
    \/ AcquireTimeout
    \/ GetTask
    \/ GetEmpty
    \/ Assign

ForemanStep ==
    \/ DispatchStep
    \/ LoopExit
    \/ GetShutDown

WorkerStep ==
    \E id \in DOMAIN worker_threads : WorkerComplete(id) \/ WorkerExit(id)

Next ==
    \/ ForemanStep
    \/ WorkerStep
    \/ Stop
    \/ \E id \in DOMAIN worker_threads : PauseWorker(id)
    \/ \E id \in DOMAIN worker_threads : ResumeWorker(id)
    \/ Tick

Spec == Init /\ [][Next]_vars

(***************************************************************************)
(* The pool specification: the dispatch loop while the group is resized    *)
(* and reconciled and workers are terminated.                              *)
(***************************************************************************)
NextPool ==
    \/ DispatchStep
    \/ WorkerStep
    \/ \E id \in DOMAIN worker_threads : TerminateWorker(id)
    \/ OnWorkerConfigChanged
    \/ \E k \in 1..Len(worker_groups), n \in 0..MaxCount : SetNumberOfWorkers(k, n)
    \/ Tick

SpecPool == Init /\ [][NextPool]_vars

(***************************************************************************)
(* The gate specification: the dispatch loop while the library and plugin  *)
(* configuration is edited.                                                *)
(***************************************************************************)
\* number of the last library configuration an edit may produce
MaxConfig == 2

\* an edit of a library's enabled plugins, their settings or the plugin flow
ChangeLibraryConfig(c) ==
    /\ c # library_config
    /\ library_config' = c
    /\ UNCHANGED <<pc, task, valid, worker_threads, thread_order, idle_workers,
                   abort_flag, settings_hash, last_schedule_run, next_run, pendingtasks,
                   queue_shutdown, complete_queue, worker_groups, incompatible,
                   over_limit, now, day_of_week, seen_config, reconciled, fired, killed,
                   caller, stop_pc, scan>>

\* an enabled plugin becomes incompatible with the plugin handler, or stops being so
SetIncompatible ==
    /\ incompatible' = ~incompatible
    /\ UNCHANGED <<pc, task, valid, worker_threads, thread_order, idle_workers,
                   abort_flag, settings_hash, last_schedule_run, next_run, pendingtasks,
                   queue_shutdown, complete_queue, worker_groups, library_config,
                   over_limit, now, day_of_week, seen_config, reconciled, fired, killed,
                   caller, stop_pc, scan>>

\* the number of libraries crosses the limit, one way or the other
SetOverLimit ==
    /\ over_limit' = ~over_limit
    /\ UNCHANGED <<pc, task, valid, worker_threads, thread_order, idle_workers,
                   abort_flag, settings_hash, last_schedule_run, next_run, pendingtasks,
                   queue_shutdown, complete_queue, worker_groups, library_config,
                   incompatible, now, day_of_week, seen_config, reconciled, fired, killed,
                   caller, stop_pc, scan>>

InitGate ==
    /\ library_config = 0
    /\ incompatible = FALSE
    /\ over_limit = FALSE
    /\ day_of_week = 0
    /\ pendingtasks = [i \in 1..MaxTasks |-> i]
    /\ worker_groups = <<Group(1, "A", MaxCount, <<>>)>>
    /\ InitForeman

NextGate ==
    \/ DispatchStep
    \/ \E id \in DOMAIN worker_threads : WorkerComplete(id)
    \/ \E c \in 0..MaxConfig : ChangeLibraryConfig(c)
    \/ SetIncompatible
    \/ SetOverLimit
    \/ Tick

SpecGate == InitGate /\ [][NextGate]_vars

(***************************************************************************)
(* The scheduler specification: one group with event schedules, the clock  *)
(* running, no task pending.                                               *)
(***************************************************************************)
ScheduleTimes == {<<>>, <<0, 0>>, <<0, 1>>}

Repetitions == {"", "daily", "weekday", "weekend", "monday", "hourly"}

ScheduleTasks == {"pause", "resume", "count"}

EventSchedules ==
    [schedule_time : ScheduleTimes, repetition : Repetitions,
     schedule_task : ScheduleTasks, schedule_worker_count : {0, MaxCount}]

InitSched ==
    /\ library_config = 0
    /\ incompatible = FALSE
    /\ over_limit = FALSE
    /\ day_of_week \in {0, 5}
    /\ pendingtasks = <<>>
    /\ \E e \in EventSchedules, n \in 0..1 : worker_groups = <<Group(1, "A", n, <<e>>)>>
    /\ InitForeman

NextSched ==
    \/ RunStart
    \/ LoopTop
    \/ AcquireIdle
    \/ AcquireTimeout
    \/ GetEmpty
    \/ \E id \in DOMAIN worker_threads : WorkerExit(id)
    \/ Tick

SpecSched == InitSched /\ [][NextSched]_vars

(***************************************************************************)
(* The dispatch scenario: one worker, two queued tasks, a valid            *)
(* configuration; the loop and the worker keep running.                    *)
(***************************************************************************)
InitDispatch ==
    /\ library_config = 0
    /\ incompatible = FALSE
    /\ over_limit = FALSE
    /\ day_of_week = 0
    /\ pendingtasks = <<1, 2>>
    /\ worker_groups = <<Group(1, "A", 1, <<>>)>>
    /\ InitForeman

NextDispatch ==
    \/ DispatchStep
    \/ \E id \in DOMAIN worker_threads : WorkerComplete(id)
    \/ Tick

\* run() is a thread of its own and a worker that holds a task completes it
SpecDispatch ==
    /\ InitDispatch
    /\ [][NextDispatch]_vars
    /\ WF_vars(DispatchStep)
    /\ WF_vars(\E id \in DOMAIN worker_threads : WorkerComplete(id))

(***************************************************************************)
(* Properties.                                                             *)
(***************************************************************************)
\* the handles that hold task t
Holders(wt, t) == {id \in DOMAIN wt : t \in wt[id].work}

\* the handles that are handed a task in this step
Receivers ==
    {id \in DOMAIN worker_threads \cap DOMAIN worker_threads' :
        worker_threads'[id].work \ worker_threads[id].work # {}}

\* the index of handle id within group g, or -1 when it is not one of g's ids
IndexIn(g, id) ==
    IF \E i \in 0..(MaxSupportedWorkers - 1) : id = WorkerId(g.name, i)
    THEN CHOOSE i \in 0..(MaxSupportedWorkers - 1) : id = WorkerId(g.name, i)
    ELSE -1

\* the step in which the scan for a worker ends
ScanEnds == pc = "assign" /\ pc' # "assign"

\* C1: every task the dispatch loop takes from the pending source is, when the
\* scan ends, held by exactly one worker or back in the pending source.
C1_NoTaskLost ==
    [][ScanEnds =>
          \/ Cardinality(Holders(worker_threads', task)) = 1
          \/ task \in Range(pendingtasks')]_vars

Settled ==
    /\ reconciled
    /\ ~abort_flag
    /\ \A id \in DOMAIN worker_threads :
          worker_threads[id].alive /\ worker_threads[id].redundant = "no"

\* the live handles of the group with this id
LiveHandles(group_id) ==
    {id \in DOMAIN worker_threads :
        worker_threads[id].alive /\ worker_threads[id].worker_group_id = group_id}

\* C3: once reconciliation has run and the redundant workers have exited and
\* been pruned, each group has min(number_of_workers, 12) live handles and none
\* with an index at or above that count.
C3_CapacityInvariant ==
    Settled =>
        \A k \in 1..Len(worker_groups) :
            LET g == worker_groups[k]
                count == Min(g.number_of_workers, MaxSupportedWorkers)
            IN  /\ Cardinality(LiveHandles(g.id)) = count
                /\ \A id \in LiveHandles(g.id) : IndexIn(g, id) < count

\* handle id of group g is beyond g's count and is running a task
RunningBeyondCount(wt, g, id) ==
    /\ wt[id].alive
    /\ ~wt[id].idle
    /\ wt[id].work # {}
    /\ IndexIn(g, id) >= g.number_of_workers

\* C4: a reconciliation that finds a worker of a group at an index at or
\* beyond number_of_workers running a task marks it redundant-pending and
\* leaves it running; and a running redundant-pending worker neither exits
\* nor loses its task before the task completes.
C4_NoKillInFlight ==
    [][/\ (RunStart \/ OnWorkerConfigChanged) =>
             \A k \in 1..Len(worker_groups), id \in DOMAIN worker_threads :
                RunningBeyondCount(worker_threads, worker_groups[k], id) =>
                    /\ id \in DOMAIN worker_threads'
                    /\ worker_threads'[id].redundant = "pending"
                    /\ worker_threads'[id].alive
                    /\ worker_threads'[id].work = worker_threads[id].work
       /\ \A id \in DOMAIN worker_threads :
             (/\ worker_threads[id].alive
              /\ worker_threads[id].work # {}
              /\ worker_threads[id].redundant = "pending") =>
                  /\ id \in DOMAIN worker_threads'
                  /\ worker_threads'[id].alive
                  /\ \/ worker_threads'[id].work = worker_threads[id].work
                     \/ /\ worker_threads'[id].work = {}
                        /\ worker_threads[id].work \subseteq complete_queue'
                  /\ worker_threads[id].work \cap killed' = {}
      ]_vars

\* C4 witness: after a shrink and its reconciliation a worker beyond the count
\* is still running its task, marked redundant-pending
C4_Witness ==
    /\ reconciled
    /\ \E k \in 1..Len(worker_groups), id \in DOMAIN worker_threads :
          /\ RunningBeyondCount(worker_threads, worker_groups[k], id)
          /\ worker_threads[id].redundant = "pending"

\* C5: once stop() has set the abort flag, the pending source is shut down,
\* every handle in the pool is marked redundant in the non-immediate mode, no
\* worker is handed a task any more, and no running worker is cut off.
C5_Shutdown ==
    [][abort_flag' =>
          /\ queue_shutdown'
          /\ \A id \in DOMAIN worker_threads' : worker_threads'[id].redundant = "pending"
          /\ Receivers = {}
          /\ killed' = killed]_vars

\* a validation: the step of run() that calls validate_worker_config()
Validation == RunStart \/ LoopTop

\* C6 as stated: a validation passes exactly when the configuration is the one
\* the previous validation saw.
C6_GateRoundTrip ==
    [][Validation => (valid' <=> library_config = seen_config)]_vars

\* C6 amended: while no enabled plugin is incompatible and the library count is
\* within limits, a validation passes exactly when the configuration is the
\* one the previous validation saw: unchanged, it passes again and again; after
\* a change the next validation fails, and the one after that passes.
C6_GateRoundTripWhenCompatible ==
    [][(Validation /\ ~incompatible /\ ~over_limit) =>
          (valid' <=> library_config = seen_config)]_vars

\* C6 witness: a validation has passed on a configuration that was edited after
\* the Foreman was constructed, so an earlier validation failed on it
C6_Witness ==
    /\ valid
    /\ pc = "acquire"
    /\ library_config # 0
    /\ library_config = seen_config
    /\ ~incompatible
    /\ ~over_limit

\* C7: an iteration whose validation fails pauses every worker, acquires no
\* idle signal, takes no task and starts over; a task leaves the pending
\* source only in an iteration whose validation passed.
C7_NoDispatchWhenInvalid ==
    [][/\ (LoopTop /\ ~valid') =>
             /\ \A id \in DOMAIN worker_threads' : worker_threads'[id].paused
             /\ idle_workers' >= idle_workers
             /\ pendingtasks' = pendingtasks
             /\ task' = NoTask
             /\ pc' = "loop"
       /\ pendingtasks' # pendingtasks => valid /\ pc = "get"
      ]_vars

\* C7 witness: a validation has just failed with idle workers and tasks waiting
C7_Witness ==
    /\ ~valid
    /\ pc = "loop"
    /\ worker_threads # [id \in {} |-> 0]
    /\ \A id \in DOMAIN worker_threads : worker_threads[id].paused
    /\ idle_workers > 0
    /\ pendingtasks # <<>>
    /\ seen_config # 0

\* C8: within one minute of the clock no schedule executes its action twice.
C8_AtMostOnceFiring ==
    \A key \in DOMAIN fired : fired[key] <= 1

\* the tasks held by workers
Held == UNION {worker_threads[id].work : id \in DOMAIN worker_threads}

\* C9, the states: at most one task is assigned at a time; while the worker
\* holds one the idle count is 0; while it holds the first the second is still
\* queued; the second is assigned only after the first completed; and once the
\* worker has reported a completion and the loop has not acquired the signal
\* again the idle count is 1.
C9_States ==
    /\ Cardinality(Held) <= 1
    /\ Held # {} => idle_workers = 0
    /\ 1 \in Held => pendingtasks = <<2>> /\ complete_queue = {}
    /\ 2 \in Held => complete_queue = {1}
    /\ (Held = {} /\ complete_queue # {} /\ pc \in {"loop", "acquire"}) => idle_workers = 1

\* C9: from one idle worker and two queued tasks, the states above hold
\* throughout, the first task is assigned, and after its completion the second
\* is assigned to the same worker.
C9_DispatchCorrectness ==
    /\ []C9_States
    /\ <>(1 \in Held)
    /\ <>(2 \in Held)
    /\ <>(complete_queue = {1, 2} /\ idle_workers = 1)

\* C9 witness: the second task is with the worker after the first completed
C9_Witness ==
    /\ 2 \in Held
    /\ complete_queue = {1}
    /\ idle_workers = 0
    /\ Cardinality(DOMAIN worker_threads) = 1

\* the handles of P that are marked redundant
RedundantHandles(P) == {id \in DOMAIN P.wt : P.wt[id].redundant # "no"}

\* C10: init_worker_threads run a second time right after a first run, the
\* groups unchanged, creates no handle (same keys, same idle count) and marks
\* no further handle redundant: it leaves the pool as the first run left it.
C10_IdempotentReconciliation ==
    LET first == InitWorkerThreads(Pool, worker_groups)
        second == InitWorkerThreads(first, worker_groups)
    IN  /\ DOMAIN second.wt = DOMAIN first.wt
        /\ second.sem = first.sem
        /\ RedundantHandles(second) = RedundantHandles(first)
        /\ second = first

\* C10 witness: a pool as a reconciliation leaves it, in which that run created
\* nothing more, with one handle kept and one marked redundant
C10_Witness ==
    /\ reconciled
    /\ Pool = InitWorkerThreads(Pool, worker_groups)
    /\ \E a, b \in DOMAIN worker_threads :
          worker_threads[a].redundant = "no" /\ worker_threads[b].redundant # "no"

(***************************************************************************)
(* The gate with the loop and the worker running: one worker, one task,    *)
(* run() is a thread of its own and a worker that holds a task completes   *)
(* it.                                                                     *)
(***************************************************************************)
InitGateFair ==
    /\ library_config = 0
    /\ incompatible = FALSE
    /\ over_limit = FALSE
    /\ day_of_week = 0
    /\ pendingtasks = <<1>>
    /\ worker_groups = <<Group(1, "A", 1, <<>>)>>
    /\ InitForeman

NextGateFair ==
    \/ DispatchStep
    \/ \E id \in DOMAIN worker_threads : WorkerComplete(id)
    \/ \E c \in 0..1 : ChangeLibraryConfig(c)
    \/ SetIncompatible

SpecGateFair ==
    /\ InitGateFair
    /\ [][NextGateFair]_vars
    /\ WF_vars(DispatchStep)
    /\ WF_vars(\E id \in DOMAIN worker_threads : WorkerComplete(id))

\* no condition that fails a validation is present: the configuration is the
\* one the latest validation recorded, no enabled plugin is incompatible, the
\* library count is within limits
Resolved ==
    /\ library_config = seen_config
    /\ ~incompatible
    /\ ~over_limit

\* C11: whenever a worker is paused (here only the gate pauses), eventually
\* every worker is unpaused again, unless a condition that fails the
\* validation is present once more: the pause clears without a resume request.
C11_GateClears ==
    (\E id \in DOMAIN worker_threads : worker_threads[id].paused)
        ~> (\/ \A id \in DOMAIN worker_threads : ~worker_threads[id].paused
            \/ ~Resolved)

(***************************************************************************)
(* Backpressure: Foreman.postprocessor_queue_full().  The completed tasks  *)
(* the post-processor has not taken yet are complete_queue.                *)
(***************************************************************************)
\* Foreman.get_total_worker_count(): the sum over the groups, from group k on
RECURSIVE GetTotalWorkerCount(_, _)
GetTotalWorkerCount(G, k) ==
    IF k > Len(G) THEN 0 ELSE G[k].number_of_workers + GetTotalWorkerCount(G, k + 1)

\* Foreman.postprocessor_queue_full(): current_count > limit, the limit being
\* the configured worker count + 1
PostprocessorQueueFull(G, processed) ==
    LET limit == GetTotalWorkerCount(G, 1) + 1
        current_count == Cardinality(processed)
    IN  current_count > limit

\* the post-processor takes a completed task
PostProcess(t) ==
    /\ t \in complete_queue
    /\ complete_queue' = complete_queue \ {t}
    /\ UNCHANGED <<pc, task, valid, worker_threads, thread_order, idle_workers,
                   abort_flag, settings_hash, last_schedule_run, next_run, pendingtasks,
                   queue_shutdown, worker_groups, library_config, incompatible,
                   over_limit, now, day_of_week, seen_config, reconciled, fired, killed,
                   caller, stop_pc, scan>>

\* tasks enough for a backlog above the limit of one worker
BacklogTasks == MaxTasks + 2

\* one worker, so that the backlog cannot grow while the loop dispatches
InitBacklog ==
    /\ library_config = 0
    /\ incompatible = FALSE
    /\ over_limit = FALSE
    /\ day_of_week = 0
    /\ pendingtasks = [i \in 1..BacklogTasks |-> i]
    /\ worker_groups = <<Group(1, "A", 1, <<>>)>>
    /\ InitForeman

NextBacklog ==
    \/ DispatchStep
    \/ \E id \in DOMAIN worker_threads : WorkerComplete(id)
    \/ \E t \in 1..BacklogTasks : PostProcess(t)

SpecBacklog == InitBacklog /\ [][NextBacklog]_vars

\* C12: while the completed-but-unprocessed tasks number more than the
\* configured worker count plus one, the dispatch loop hands no task to a
\* worker.
C12_Backpressure ==
    [][PostprocessorQueueFull(worker_groups, complete_queue) => Receivers = {}]_vars

(***************************************************************************)
(* The rename specification: the group is resized and renamed and the pool *)
(* reconciled while the loop dispatches.                                   *)
(***************************************************************************)
GroupNames == {"A", "B"}

\* an edit of group k's name in the WorkerGroup store
RenameGroup(k, name) ==
    /\ k \in 1..Len(worker_groups)
    /\ name # worker_groups[k].name
    /\ worker_groups' = [worker_groups EXCEPT ![k].name = name]
    /\ reconciled' = FALSE
    /\ UNCHANGED <<pc, task, valid, worker_threads, thread_order, idle_workers,
                   abort_flag, settings_hash, last_schedule_run, next_run, pendingtasks,
                   queue_shutdown, complete_queue, library_config, incompatible,
                   over_limit, now, day_of_week, seen_config, fired, killed,
                   caller, stop_pc, scan>>

NextRename ==
    \/ DispatchStep
    \/ WorkerStep
    \/ OnWorkerConfigChanged
    \/ \E k \in 1..Len(worker_groups), n \in 0..MaxCount : SetNumberOfWorkers(k, n)
    \/ \E k \in 1..Len(worker_groups), name \in GroupNames : RenameGroup(k, name)

\* one task in the pending source: at most one worker is running
InitRename ==
    /\ library_config = 0
    /\ incompatible = FALSE
    /\ over_limit = FALSE
    /\ day_of_week = 0
    /\ pendingtasks = <<1>>
    /\ \E n \in 1..MaxCount : worker_groups = <<Group(1, "A", n, <<>>)>>
    /\ InitForeman

SpecRename == InitRename /\ [][NextRename]_vars

\* the live handles of the group with this id that are not marked redundant
KeptHandles(group_id) ==
    {id \in LiveHandles(group_id) : worker_threads[id].redundant = "no"}

C14_PauseNotPreemptive ==
    [][\A id \in DOMAIN worker_threads :
          /\ worker_threads[id].work # {} => id \in DOMAIN worker_threads'
          /\ id \in DOMAIN worker_threads' =>
                /\ (~worker_threads[id].paused /\ worker_threads'[id].paused) =>
                      /\ worker_threads'[id].work = worker_threads[id].work
                      /\ worker_threads'[id].alive = worker_threads[id].alive
                /\ (worker_threads[id].paused /\ worker_threads[id].work # {}) =>
                      /\ \/ worker_threads'[id].work = worker_threads[id].work
                         \/ /\ worker_threads'[id].work = {}
                            /\ worker_threads[id].work \subseteq complete_queue'
                      /\ worker_threads[id].work \cap killed' = {}
                /\ worker_threads[id].paused => id \notin Receivers
                /\ worker_threads'[id].paused =>
                      /\ id \notin Range(FetchAvailableWorkerIds(worker_threads',
                                                                thread_order'))
                      /\ (CheckForIdleWorkers(worker_threads') =>
                             \E other \in DOMAIN worker_threads' \ {id} :
                                 CanAcceptWork(worker_threads'[other]))
                /\ (worker_threads[id].paused /\ ~worker_threads'[id].paused) =>
                      ResumeWorker(id)
      ]_vars

\* C14 witness: a worker paused while running still holds its task, and a
\* paused idle worker was passed over: the other worker was handed the later task
C14_Witness ==
    \E a, b \in DOMAIN worker_threads :
        /\ a # b
        /\ thread_order = <<a, b>>
        /\ worker_threads[a].paused
        /\ worker_threads[a].idle
        /\ worker_threads[a].alive
        /\ 1 \in complete_queue
        /\ worker_threads[b].work = {2}
        /\ worker_threads[b].paused
        /\ FetchAvailableWorkerIds(worker_threads, thread_order) = <<>>

(***************************************************************************)
(* init_worker_threads() statement by statement, in the thread of the      *)
(* caller of on_worker_config_changed(): run() goes on between the read of *)
(* a handle's idle flag and the call of set_redundant.                     *)
(***************************************************************************)
\* the create loops of init_worker_threads over the groups, from group k on
RECURSIVE CreateAllThreads(_, _, _)
CreateAllThreads(P, G, k) ==
    IF k > Len(G) THEN P ELSE CreateAllThreads(CreateThreads(P, G[k], 0), G, k + 1)

\* the ids the shrink loop of group g visits: range(number_of_workers, 12),
\* from i on, those in the pool
RECURSIVE ShrinkIds(_, _, _)
ShrinkIds(P, g, i) ==
    IF i >= MaxSupportedWorkers THEN <<>>
    ELSE (IF WorkerId(g.name, i) \in DOMAIN P.wt THEN <<WorkerId(g.name, i)>> ELSE <<>>)
         \o ShrinkIds(P, g, i + 1)

\* the ids the shrink loops visit, group after group from group k on
RECURSIVE AllShrinkIds(_, _, _)
AllShrinkIds(P, G, k) ==
    IF k > Len(G) THEN <<>>
    ELSE ShrinkIds(P, G[k], G[k].number_of_workers) \o AllShrinkIds(P, G, k + 1)

\* the ids the last loop marks, in the order of the pool map
OrphanIds(P, G) ==
    SelectIn(P.ord, {id \in DOMAIN P.wt :
                        \/ P.wt[id].worker_group_id \notin ExpectedGroupIds(G)
                        \/ P.wt[id].name \notin ExpectedWorkerNames(G)})

\* the call begins: prune_dead_threads(), the create loops; what is left are
\* the handles to mark
CallerBegin ==
    /\ pc # "start"
    /\ caller = [todo |-> <<>>, is_idle |-> <<>>]
    /\ LET P == CreateAllThreads(PruneDeadThreads(Pool), worker_groups, 1)
           todo == AllShrinkIds(P, worker_groups, 1) \o OrphanIds(P, worker_groups)
       IN  /\ SetPool(P)
           /\ caller' = [todo |-> todo, is_idle |-> <<>>]
           /\ reconciled' = (todo = <<>>)
    /\ UNCHANGED <<pc, task, valid, abort_flag, settings_hash, last_schedule_run,
                   next_run, pendingtasks, queue_shutdown, complete_queue, worker_groups,
                   library_config, incompatible, over_limit, now, day_of_week,
                   seen_config, fired, killed, stop_pc, scan>>

\* is_idle = self.worker_threads[id].idle
CallerRead ==
    /\ caller.todo # <<>>
    /\ caller.is_idle = <<>>
    /\ Head(caller.todo) \in DOMAIN worker_threads
    /\ caller' = [caller EXCEPT !.is_idle = <<worker_threads[Head(caller.todo)].idle>>]
    /\ UNCHANGED <<pc, task, valid, worker_threads, thread_order, idle_workers,
                   abort_flag, settings_hash, last_schedule_run, next_run, pendingtasks,
                   queue_shutdown, complete_queue, worker_groups, library_config,
                   incompatible, over_limit, now, day_of_week, seen_config, reconciled,
                   fired, killed, stop_pc, scan>>

\* self.mark_worker_thread_as_redundant(id, immediate=is_idle)
CallerMark ==
    /\ caller.todo # <<>>
    /\ caller.is_idle # <<>>
    /\ SetPool(MarkWorkerThreadAsRedundant(Pool, Head(caller.todo), caller.is_idle[1]))
    /\ caller' = [todo |-> Tail(caller.todo), is_idle |-> <<>>]
    /\ reconciled' = (Tail(caller.todo) = <<>>)
    /\ UNCHANGED <<pc, task, valid, abort_flag, settings_hash, last_schedule_run,
                   next_run, pendingtasks, queue_shutdown, complete_queue, worker_groups,
                   library_config, incompatible, over_limit, now, day_of_week,
                   seen_config, fired, killed, stop_pc, scan>>

\* the clock stands still: the scheduler's jobs of run() never come due, and
\* the pool map is changed by the caller's thread only
NextRace ==
    \/ DispatchStep
    \/ WorkerStep
    \/ \E k \in 1..Len(worker_groups), n \in 0..MaxCount : SetNumberOfWorkers(k, n)
    \/ CallerBegin
    \/ CallerRead
    \/ CallerMark

SpecRace == Init /\ [][NextRace]_vars

\* C15: a step that marks a worker redundant-immediate marks a worker that
\* holds no task.
C15_ImmediateOnlyWhenIdle ==
    [][\A id \in DOMAIN worker_threads \cap DOMAIN worker_threads' :
          (/\ worker_threads'[id].redundant = "immediate"
           /\ worker_threads[id].redundant # "immediate")
             => worker_threads'[id].work = {}]_vars

\* C16: every step that adds a handle to the pool map or removes one from it
\* is a step of run(), the Foreman thread.
C16_OnlyForemanChangesMembership ==
    [][DOMAIN worker_threads' # DOMAIN worker_threads => ForemanStep]_vars

(***************************************************************************)
(* stop() statement by statement, in the thread of its caller: run() goes  *)
(* on between abort_flag.set(), idle_workers.release(),                    *)
(* pendingtasks.shutdown() and the marking of the workers.                 *)
(***************************************************************************)
\* self.abort_flag.set()
StopSetAbort ==
    /\ pc # "start"
    /\ stop_pc = "idle"
    /\ abort_flag' = TRUE
    /\ stop_pc' = "release"
    /\ UNCHANGED <<pc, task, valid, worker_threads, thread_order, idle_workers,
                   settings_hash, last_schedule_run, next_run, pendingtasks,
                   queue_shutdown, complete_queue, worker_groups, library_config,
                   incompatible, over_limit, now, day_of_week, seen_config, reconciled,
                   fired, killed, caller, scan>>

\* self.idle_workers.release()
StopRelease ==
    /\ stop_pc = "release"
    /\ idle_workers + 1 <= MaxSem
    /\ idle_workers' = idle_workers + 1
    /\ stop_pc' = "shutdown"
    /\ UNCHANGED <<pc, task, valid, worker_threads, thread_order, abort_flag,
                   settings_hash, last_schedule_run, next_run, pendingtasks,
                   queue_shutdown, complete_queue, worker_groups, library_config,
                   incompatible, over_limit, now, day_of_week, seen_config, reconciled,
                   fired, killed, caller, scan>>

\* self.pendingtasks.shutdown(immediate=True)
StopShutdown ==
    /\ stop_pc = "shutdown"
    /\ queue_shutdown' = TRUE
    /\ pendingtasks' = <<>>
    /\ stop_pc' = "mark"
    /\ UNCHANGED <<pc, task, valid, worker_threads, thread_order, idle_workers,
                   abort_flag, settings_hash, last_schedule_run, next_run,
                   complete_queue, worker_groups, library_config, incompatible,
                   over_limit, now, day_of_week, seen_config, reconciled, fired, killed,
                   caller, scan>>

\* for thread in list(self.worker_threads.keys()):
\*     self.mark_worker_thread_as_redundant(thread)
StopMarkRedundant ==
    /\ stop_pc = "mark"
    /\ SetPool(MarkAllRedundant(Pool, thread_order))
    /\ stop_pc' = "done"
    /\ UNCHANGED <<pc, task, valid, abort_flag, settings_hash, last_schedule_run,
                   next_run, pendingtasks, queue_shutdown, complete_queue, worker_groups,
                   library_config, incompatible, over_limit, now, day_of_week,
                   seen_config, reconciled, fired, killed, caller, scan>>

\* the statements of stop() after the first
StopGoesOn ==
    \/ StopRelease
    \/ StopShutdown
    \/ StopMarkRedundant

InitStop ==
    /\ library_config = 0
    /\ incompatible = FALSE
    /\ over_limit = FALSE
    /\ day_of_week = 0
    /\ pendingtasks = <<1, 2>>
    /\ worker_groups = <<Group(1, "A", 1, <<>>)>>
    /\ InitForeman

NextStop ==
    \/ ForemanStep
    \/ WorkerStep
    \/ StopSetAbort
    \/ StopGoesOn

\* run() and the caller of stop() are threads that keep running, and a worker
\* that holds a task completes it
SpecStop ==
    /\ InitStop
    /\ [][NextStop]_vars
    /\ WF_vars(ForemanStep)
    /\ WF_vars(StopGoesOn)
    /\ WF_vars(WorkerStep)

\* run() leaves the loop once the abort flag is set
LoopTerminates == abort_flag ~> (pc = "done")

\* C17: once the abort flag is set run() leaves the loop eventually, and it
\* takes no task from the pending source after the flag is set.
C17_StopEndsLoop ==
    /\ LoopTerminates
    /\ [][abort_flag => ~(task = NoTask /\ task' # NoTask)]_vars

\* the iteration that acquired the idle signal and found the pending source
\* empty ends: the signal is released back, and nothing else changes
EmptyGetRestores ==
    [][(pc = "get" /\ pc' = "loop") =>
          /\ idle_workers' = idle_workers + 1
          /\ worker_threads' = worker_threads
          /\ pendingtasks' = pendingtasks]_vars

\* C18: only the acquire of the dispatch loop lowers the idle count, by one; an
\* iteration that acquired the signal and got no task gives it back and leaves
\* the workers and the pending source as they were; and so does a scan that
\* hands the task to no worker: the count stays lowered only when a worker
\* was handed a task.
C18_IdleAccounting ==
    /\ [][idle_workers' < idle_workers =>
             pc = "acquire" /\ idle_workers' = idle_workers - 1]_vars
    /\ EmptyGetRestores
    /\ [][(ScanEnds /\ Receivers = {}) => idle_workers' = idle_workers + 1]_vars

\* the handles that are alive and idle
IdleHandles ==
    {id \in DOMAIN worker_threads : worker_threads[id].alive /\ worker_threads[id].idle}

\* C19: whenever run() is not between acquiring the idle signal and assigning
\* the task, the idle count is at most the number of handles that are alive
\* and idle.
C19_IdleCountBounded ==
    pc \in {"start", "loop", "acquire", "done"} =>
        idle_workers <= Cardinality(IdleHandles)

(***************************************************************************)
(* The dispatch loop with workers paused and resumed: run() is a thread of *)
(* its own and a worker that holds a task completes it.                    *)
(***************************************************************************)
InitLive ==
    /\ library_config = 0
    /\ incompatible = FALSE
    /\ over_limit = FALSE
    /\ day_of_week = 0
    /\ pendingtasks = [i \in 1..MaxTasks |-> i]
    /\ worker_groups = <<Group(1, "A", MaxCount, <<>>)>>
    /\ InitForeman

NextLive ==
    \/ DispatchStep
    \/ \E id \in DOMAIN worker_threads : WorkerComplete(id)
    \/ \E id \in DOMAIN worker_threads : PauseWorker(id)
    \/ \E id \in DOMAIN worker_threads : ResumeWorker(id)

SpecLive ==
    /\ InitLive
    /\ [][NextLive]_vars
    /\ WF_vars(DispatchStep)
    /\ WF_vars(\E id \in DOMAIN worker_threads : WorkerComplete(id))

\* the pool is not built yet, or holds a live worker that is neither paused
\* nor redundant
HasWillingWorker ==
    \/ pc = "start"
    \/ \E id \in DOMAIN worker_threads :
          /\ worker_threads[id].alive
          /\ ~worker_threads[id].paused
          /\ worker_threads[id].redundant = "no"

\* C20: if the pool always holds a live worker that is neither paused nor
\* redundant (the configuration valid, no abort), every task of the pending
\* source is eventually with a worker.
C20_DispatchLiveness ==
    []HasWillingWorker =>
        \A t \in Tasks : <>(t \in Held \/ t \in complete_queue)

(***************************************************************************)
(* The loop and the periodic jobs: one worker, one task, the configuration *)
(* edited and the clock running; run() is a thread of its own and a worker *)
(* that holds a task completes it.                                         *)
(***************************************************************************)
NextPeriodic ==
    \/ ForemanStep
    \/ \E id \in DOMAIN worker_threads : WorkerComplete(id)
    \/ \E c \in 0..1 : ChangeLibraryConfig(c)
    \/ Stop
    \/ Tick

SpecPeriodic ==
    /\ InitGateFair
    /\ [][NextPeriodic]_vars
    /\ WF_vars(ForemanStep)
    /\ WF_vars(\E id \in DOMAIN worker_threads : WorkerComplete(id))

\* run() is at the top of an iteration, about to call scheduler.run_pending()
AtRunPending == pc = "loop" /\ ~abort_flag

\* a job of the scheduler is due
JobDue == next_run.schedules = 0 \/ next_run.prune = 0

\* C21: unless the abort flag is set, run() is at scheduler.run_pending() again
\* and again, whatever the pool, the pending source and the configuration are;
\* and a job that has come due is run.
C21_PeriodicJobsNotStarved ==
    /\ []<>(AtRunPending \/ abort_flag)
    /\ JobDue ~> (~JobDue \/ abort_flag)

\* C21 witness: run() is back at the top of an iteration after the jobs came
\* due and ran, with no task queued, no idle signal and the configuration
\* invalid
C21_Witness ==
    /\ AtRunPending
    /\ now = MaxNow
    /\ ~JobDue
    /\ ~valid
    /\ pendingtasks = <<>>
    /\ idle_workers = 0

(***************************************************************************)
(* The scheduler with two schedules in one group: both may be due in the   *)
(* same run of manage_event_schedules.                                     *)
(***************************************************************************)
TickSchedules ==
    [schedule_time : {<<0, 0>>, <<0, 1>>}, repetition : {"daily", "weekend"},
     schedule_task : ScheduleTasks, schedule_worker_count : {0, MaxCount}]

InitTick ==
    /\ library_config = 0
    /\ incompatible = FALSE
    /\ over_limit = FALSE
    /\ day_of_week = 0
    /\ pendingtasks = <<>>
    /\ \E e1, e2 \in TickSchedules, n \in 0..1 :
          worker_groups = <<Group(1, "A", n, <<e1, e2>>)>>
    /\ InitForeman

SpecTick == InitTick /\ [][NextSched]_vars

\* the schedules, <<group, schedule>>, whose action a run at time_now executes
DueSchedules(G, time_now, day) ==
    {x \in UNION {{<<k, j>> : j \in 1..Len(G[k].schedules)} : k \in 1..Len(G)} :
        ScheduleIsDue(G[x[1]].schedules[x[2]], time_now, day)}

\* the handles a reconciliation of pool P for the groups G has to mark: those
\* beyond their group's count and the orphans
Surplus(P, G) == Range(AllShrinkIds(P, G, 1)) \cup Range(OrphanIds(P, G))

\* C22: a run of manage_event_schedules in which an action is executed ends
\* with one init_worker_threads on the pool and the groups as all the actions
\* of the run left them, so that a handle is marked redundant in the run only
\* if the groups at the end of the run have no place for it; a run in which
\* no action is executed changes nothing, the pool is not reconciled.
C22_OneReconciliationPerTick ==
    LET S == SchedulerState
        T == RunGroupSchedules(S, 1, TimeNow(now), day_of_week)
        R == ManageEventSchedules(S, now, day_of_week)
    IN  IF DueSchedules(worker_groups, TimeNow(now), day_of_week) # {}
        THEN /\ T.did
             /\ R = [T EXCEPT !.P = InitWorkerThreads(T.P, T.G)]
             /\ RedundantHandles(R.P) \ RedundantHandles(S.P) \subseteq Surplus(R.P, R.G)
        ELSE R = S

\* C22 witness: both schedules of the group ran in one pass, a count 0 before a
\* count MaxCount, and the one reconciliation after them built the pool for
\* MaxCount: no handle is marked redundant
C22_Witness ==
    /\ pc = "acquire"
    /\ DOMAIN fired = {<<1, 1>>, <<1, 2>>}
    /\ worker_groups[1].schedules[1].schedule_task = "count"
    /\ worker_groups[1].schedules[1].schedule_worker_count = 0
    /\ worker_groups[1].schedules[2].schedule_task = "count"
    /\ worker_groups[1].number_of_workers = MaxCount
    /\ Cardinality(DOMAIN worker_threads) = MaxCount
    /\ \A id \in DOMAIN worker_threads : worker_threads[id].redundant = "no"

\* the repetition values of the schedules and the seven day names
AllRepetitions == Repetitions \cup Range(Days)

\* repetition stands for day d (0 = Monday): daily, weekday on Monday to
\* Friday, weekend on Saturday or Sunday, or the name of the day
RepetitionIsToday(repetition, d) ==
    \/ repetition = "daily"
    \/ repetition = "weekday" /\ d \in 0..4
    \/ repetition = "weekend" /\ d \in {5, 6}
    \/ \E i \in 1..7 : i = d + 1 /\ repetition = Days[i]

\* C23: for every repetition value and every day of the week the repetition
\* tests pass exactly when the repetition stands for the day; a schedule is
\* due exactly when its schedule_time is set and equal to the current HH:MM
\* and its repetition stands for today; a run of manage_event_schedules
\* executes the action of the group's schedule (last_schedule_run is set, the
\* run counts as having done something) exactly when the schedule is due, and
\* otherwise changes nothing.
C23_ScheduleMatching ==
    /\ \A repetition \in AllRepetitions, d \in 0..6 :
          RepetitionMatches(repetition, d) <=> RepetitionIsToday(repetition, d)
    /\ \A k \in 1..Len(worker_groups) :
          \A j \in 1..Len(worker_groups[k].schedules) :
             LET e == worker_groups[k].schedules[j]
                 matching == /\ e.schedule_time # <<>>
                             /\ e.schedule_time = TimeNow(now)
                             /\ RepetitionIsToday(e.repetition, day_of_week)
                 R == ManageEventSchedules(SchedulerState, now, day_of_week)
             IN  /\ ScheduleIsDue(e, TimeNow(now), day_of_week) <=> matching
                 /\ matching => /\ R.did
                                /\ R.lsr = TimeNow(now)
                                /\ <<worker_groups[k].id, j>> \in DOMAIN R.fired
                                /\ e.schedule_task = "count" =>
                                      R.G[k].number_of_workers = e.schedule_worker_count
                 /\ (~matching /\ Len(worker_groups[k].schedules) = 1
                        /\ Len(worker_groups) = 1) => R = SchedulerState

\* C23 witness: on a Saturday a 'weekend' schedule has run at its time
C23_Witness ==
    /\ day_of_week = 5
    /\ worker_groups[1].schedules[1].repetition = "weekend"
    /\ worker_groups[1].schedules[1].schedule_time = <<0, 0>>
    /\ worker_groups[1].schedules[1].schedule_task = "pause"
    /\ last_schedule_run = <<0, 0>>
    /\ DOMAIN fired = {<<1, 1>>}
    /\ \E id \in DOMAIN worker_threads : worker_threads[id].paused

(***************************************************************************)
(* The scheduler with two groups, one daily schedule each.  The ids of the *)
(* groups are keys of saved rows of the WorkerGroup store: positive.       *)
(***************************************************************************)
GroupSchedules ==
    [schedule_time : {<<0, 0>>, <<0, 1>>}, repetition : {"daily"},
     schedule_task : ScheduleTasks, schedule_worker_count : {0, MaxCount}]

InitTwoGroups ==
    /\ library_config = 0
    /\ incompatible = FALSE
    /\ over_limit = FALSE
    /\ day_of_week = 0
    /\ pendingtasks = <<>>
    /\ \E e1, e2 \in GroupSchedules, n1, n2 \in 0..1 :
          worker_groups = <<Group(1, "A", n1, <<e1>>), Group(2, "B", n2, <<e2>>)>>
    /\ InitForeman

SpecTwoGroups == InitTwoGroups /\ [][NextSched]_vars

\* the schedules of the group with this id whose action a run executes now
DueActionsOf(group_id) ==
    {x \in DueSchedules(worker_groups, TimeNow(now), day_of_week) :
        worker_groups[x[1]].id = group_id}

\* run_task for schedule j of group k, in the current state: a 'pause' sets and
\* a 'resume' clears the paused flag of every handle of the group and nothing
\* else in the pool, the groups stay; a 'count' sets the group's
\* number_of_workers and nothing else, the pool stays
RunTaskStaysInGroup(k, j) ==
    LET S == SchedulerState
        g == worker_groups[k]
        e == g.schedules[j]
        R == RunTask(S, TimeNow(now), k, j)
        flagged(v) == [id \in DOMAIN worker_threads |->
                          IF worker_threads[id].worker_group_id = g.id
                          THEN [worker_threads[id] EXCEPT !.paused = v]
                          ELSE worker_threads[id]]
    IN  /\ e.schedule_task = "pause" =>
              R.P = [S.P EXCEPT !.wt = flagged(TRUE)] /\ R.G = S.G
        /\ e.schedule_task = "resume" =>
              R.P = [S.P EXCEPT !.wt = flagged(FALSE)] /\ R.G = S.G
        /\ e.schedule_task = "count" =>
              /\ R.P = S.P
              /\ R.G = [S.G EXCEPT ![k].number_of_workers = e.schedule_worker_count]

C25_ValidationChecks ==
    /\ [](LET V == ValidateWorkerConfig(settings_hash, library_config, incompatible,
                                        over_limit)
              same == SettingsHash(library_config) = settings_hash
          IN  /\ V.valid <=> (~incompatible /\ same /\ ~over_limit)
              /\ V.hash = SettingsHash(library_config)
              /\ V.warning <=> ~same)
    /\ [][Validation =>
             /\ valid' <=> (/\ ~incompatible
                            /\ SettingsHash(library_config) = settings_hash
                            /\ ~over_limit)
             /\ settings_hash' = SettingsHash(library_config)]_vars

\* C25 witness: a validation has failed and recorded the hash of an edited
\* configuration while a plugin is incompatible and the library count is over
\* the limit
C25_Witness ==
    /\ ~valid
    /\ pc = "loop"
    /\ incompatible
    /\ over_limit
    /\ library_config # 0
    /\ seen_config = library_config
    /\ settings_hash = SettingsHash(library_config)

\* C26: init_worker_threads on the current pool and groups leaves a handle
\* under the id of every (group name, i) with 0 <= i < number_of_workers; the
\* handles it creates are exactly those of such ids that the pool, dead handles
\* pruned, did not hold, each a newly started worker of the group; the idle
\* count rises by the number of handles created; and every handle the pruned
\* pool held is still there under its id, the same worker with its task, a
\* redundancy mark at most added.
C26_CreatesWhatIsMissing ==
    LET G == worker_groups
        before == PruneDeadThreads(Pool)
        after == InitWorkerThreads(Pool, G)
        expected == UNION {{WorkerId(G[k].name, i) : i \in 0..(G[k].number_of_workers - 1)} :
                           k \in 1..Len(G)}
        created == DOMAIN after.wt \ DOMAIN before.wt
    IN  /\ expected \subseteq DOMAIN after.wt
        /\ created = expected \ DOMAIN before.wt
        /\ \A id \in created :
              \E k \in 1..Len(G) :
                 /\ IndexIn(G[k], id) \in 0..(G[k].number_of_workers - 1)
                 /\ after.wt[id] = NewWorker(WorkerName(G[k].name, IndexIn(G[k], id)), G[k].id)
        /\ after.sem = idle_workers + Cardinality(created)
        /\ \A id \in DOMAIN before.wt :
              /\ id \in DOMAIN after.wt
              /\ [after.wt[id] EXCEPT !.redundant = before.wt[id].redundant] = before.wt[id]
              /\ before.wt[id].redundant # "no" => after.wt[id].redundant # "no"

\* C26 witness: the count was raised while the first worker was running; the
\* reconciliation has added the second handle beside it, and the first still
\* holds its task
C26_Witness ==
    /\ reconciled
    /\ worker_groups[1].number_of_workers = 2
    /\ thread_order = <<WorkerId("A", 0), WorkerId("A", 1)>>
    /\ worker_threads[WorkerId("A", 0)].work = {1}
    /\ worker_threads[WorkerId("A", 0)].redundant = "no"
    /\ worker_threads[WorkerId("A", 1)] = NewWorker(WorkerName("A", 1), 1)
    /\ idle_workers = 1

(***************************************************************************)
(* The orphan specification: two groups of one worker each are renamed and *)
(* deleted and the pool reconciled while the loop dispatches one task.     *)
(***************************************************************************)
\* a group is deleted from the WorkerGroup store
DeleteGroup(k) ==
    /\ k \in 1..Len(worker_groups)
    /\ worker_groups' = SubSeq(worker_groups, 1, k - 1)
                           \o SubSeq(worker_groups, k + 1, Len(worker_groups))
    /\ reconciled' = FALSE
    /\ UNCHANGED <<pc, task, valid, worker_threads, thread_order, idle_workers,
                   abort_flag, settings_hash, last_schedule_run, next_run, pendingtasks,
                   queue_shutdown, complete_queue, library_config, incompatible,
                   over_limit, now, day_of_week, seen_config, fired, killed,
                   caller, stop_pc, scan>>

InitOrphan ==
    /\ library_config = 0
    /\ incompatible = FALSE
    /\ over_limit = FALSE
    /\ day_of_week = 0
    /\ pendingtasks = <<1>>
    /\ worker_groups = <<Group(1, "A", 1, <<>>), Group(2, "B", 1, <<>>)>>
    /\ InitForeman

\* a group's name is unique within the store
NextOrphan ==
    \/ DispatchStep
    \/ WorkerStep
    \/ OnWorkerConfigChanged
    \/ \E k \in 1..Len(worker_groups), name \in GroupNames :
          /\ \A j \in 1..Len(worker_groups) : worker_groups[j].name # name
          /\ RenameGroup(k, name)
    \/ \E k \in 1..Len(worker_groups) : DeleteGroup(k)

SpecOrphan == InitOrphan /\ [][NextOrphan]_vars

\* the handle w belongs to no current group, or carries a name no current
\* group expects
IsOrphan(w, G) ==
    \/ \A k \in 1..Len(G) : w.worker_group_id # G[k].id
    \/ \A k \in 1..Len(G) :
          \A i \in 0..(G[k].number_of_workers - 1) : w.name # WorkerName(G[k].name, i)

\* C27: the last loop of init_worker_threads, on any pool, marks every handle
\* that is an orphan redundant, immediate if the handle is idle and pending
\* otherwise, and leaves every other handle as it is; and after a whole
\* reconciliation every orphan in the pool carries the mark that fits its idle
\* flag, while a handle that is no orphan and within its group's count has the
\* mark it had.
C27_OrphanEviction ==
    LET G == worker_groups
        marked == RemoveOrphans(Pool, G)
        pruned == PruneDeadThreads(Pool)
        after == InitWorkerThreads(Pool, G)
        mark(w) == IF w.idle THEN "immediate" ELSE "pending"
    IN  /\ DOMAIN marked.wt = DOMAIN worker_threads
        /\ marked.sem = idle_workers
        /\ \A id \in DOMAIN worker_threads :
              LET w == worker_threads[id]
              IN  marked.wt[id] = IF IsOrphan(w, G) THEN [w EXCEPT !.redundant = mark(w)]
                                  ELSE w
        /\ \A id \in DOMAIN after.wt :
              LET w == after.wt[id]
              IN  /\ IsOrphan(w, G) => w.redundant = mark(w)
                  /\ (/\ ~IsOrphan(w, G)
                      /\ id \in DOMAIN pruned.wt
                      /\ id \notin Range(AllShrinkIds(after, G, 1)))
                        => w.redundant = pruned.wt[id].redundant

\* C27 witness: after a reconciliation the handle of a deleted group is marked
\* redundant-pending, it holds the task, and the handle created under the old
\* name of the renamed group is marked redundant-immediate
C27_Witness ==
    /\ reconciled
    /\ Len(worker_groups) = 1
    /\ worker_groups[1].id = 1
    /\ worker_groups[1].name = "B"
    /\ \E a, b \in DOMAIN worker_threads :
          /\ worker_threads[a].worker_group_id = 2
          /\ worker_threads[a].work = {1}
          /\ worker_threads[a].redundant = "pending"
          /\ worker_threads[b].name = WorkerName("A", 0)
          /\ worker_threads[b].alive
          /\ worker_threads[b].redundant = "immediate"

(***************************************************************************)
(* Shrink then grow: one group of one worker, one task; the count is set   *)
(* to 0 and back to 1 and the pool reconciled while the loop, the worker   *)
(* and the clock keep running.                                             *)
(***************************************************************************)
NextRegrow ==
    \/ DispatchStep
    \/ WorkerStep
    \/ \E n \in 0..1 : SetNumberOfWorkers(1, n)
    \/ OnWorkerConfigChanged
    \/ Tick

SpecRegrow ==
    /\ InitGateFair
    /\ [][NextRegrow]_vars
    /\ WF_vars(DispatchStep)
    /\ WF_vars(WorkerStep)

\* the count is back at its value and the pool reconciled, while a worker
\* marked redundant-pending under the reduced count is finishing its task
Regrown ==
    /\ reconciled
    /\ \E id \in DOMAIN worker_threads :
          /\ worker_threads[id].alive
          /\ worker_threads[id].work # {}
          /\ worker_threads[id].redundant = "pending"
          /\ \E k \in 1..Len(worker_groups) :
                IndexIn(worker_groups[k], id) \in 0..(worker_groups[k].number_of_workers - 1)

\* C28: from a state in which the count was reduced and raised back, each
\* change reconciled, while a worker beyond the reduced count is finishing its
\* task, the group eventually has number_of_workers live handles that are not
\* marked redundant, unless the groups are edited again.
C28_ShrinkThenGrow ==
    Regrown ~> (\/ ~reconciled
                \/ \A k \in 1..Len(worker_groups) :
                      Cardinality(KeptHandles(worker_groups[k].id))
                          = worker_groups[k].number_of_workers)

\* ---------------------------------------------------------------------
\* Pruning of exited workers: the group is shrunk to no worker while the
\* clock advances, so the worker is marked redundant (immediately when idle,
\* pending when it holds the task), exits, and its handle waits for the
\* prune job of the loop or for the next reconciliation
NextShrink ==
    \/ DispatchStep
    \/ WorkerStep
    \/ SetNumberOfWorkers(1, 0)
    \/ OnWorkerConfigChanged
    \/ Tick

SpecPrune ==
    /\ InitGateFair
    /\ [][NextShrink]_vars
    /\ WF_vars(DispatchStep)
    /\ WF_vars(WorkerStep)
    /\ WF_vars(Tick)

PoolIds == {WorkerId(n, i) : n \in GroupNames, i \in 0..(MaxCount - 1)}

Terminated(id) == id \in DOMAIN worker_threads /\ ~worker_threads[id].alive

MarkedRedundant(id) ==
    id \in DOMAIN worker_threads /\ worker_threads[id].redundant # "no"

\* the clock of the model still reaches the next run of the prune job
PruneStillComes == now + PruneInterval <= MaxNow

\* C29: a worker marked redundant exits, and once it has exited a pruning
\* pass (the job of the loop or the first step of a reconciliation)
\* deletes its handle from the pool map: no terminated handle stays in the
\* map while the loop runs
C29_RedundantEventuallyPruned ==
    \A id \in PoolIds :
        /\ MarkedRedundant(id) ~> ~(MarkedRedundant(id) /\ worker_threads[id].alive)
        /\ (Terminated(id) /\ PruneStillComes) ~> ~Terminated(id)

C29_Witness ==
    /\ DOMAIN worker_threads = {}
    /\ complete_queue # {}
    /\ reconciled
    /\ worker_groups[1].number_of_workers = 0
    /\ next_run.prune = PruneInterval
    /\ now = MaxNow

\* ---------------------------------------------------------------------
\* Pruning within reconciliation: one group of up to MaxCount workers and
\* one task, resized and reconciled while workers are paused and exit
NextPruneFirst ==
    \/ DispatchStep
    \/ WorkerStep
    \/ OnWorkerConfigChanged
    \/ \E k \in 1..Len(worker_groups), n \in 0..MaxCount : SetNumberOfWorkers(k, n)
    \/ \E id \in DOMAIN worker_threads : PauseWorker(id)

SpecPruneFirst == InitRename /\ [][NextPruneFirst]_vars

\* the ids of the handles init_worker_threads expects for the groups G
ExpectedIds(G) ==
    UNION {{WorkerId(G[k].name, i) : i \in 0..(G[k].number_of_workers - 1)} :
           k \in 1..Len(G)}

\* the handle a reconciliation creates in the place of the handle id
Recreated(G, id, w) ==
    \E k \in 1..Len(G) :
       /\ IndexIn(G[k], id) \in 0..(G[k].number_of_workers - 1)
       /\ w = NewWorker(WorkerName(G[k].name, IndexIn(G[k], id)), G[k].id)

\* C30: the pruning pass removes exactly the handles whose worker is not
\* alive and leaves every other handle, the order of the map and the idle
\* count as they are, whatever the idle, paused and redundant flags; it is
\* the first step of a reconciliation: a handle that is not alive when the
\* reconciliation starts is gone afterwards, or replaced by a new worker
\* where the groups expect one, and a live handle is still in the map with
\* nothing but its redundant mark possibly changed by the later steps
C30_PruningFirst ==
    /\ [](LET pruned == PruneDeadThreads(Pool)
              after == InitWorkerThreads(Pool, worker_groups)
              dead == {id \in DOMAIN worker_threads : ~worker_threads[id].alive}
          IN  /\ DOMAIN pruned.wt = DOMAIN worker_threads \ dead
              /\ \A id \in DOMAIN pruned.wt : pruned.wt[id] = worker_threads[id]
              /\ pruned.ord = SelectSeq(thread_order, LAMBDA id : id \notin dead)
              /\ pruned.sem = idle_workers
              /\ \A id \in dead :
                    IF id \in ExpectedIds(worker_groups)
                    THEN /\ id \in DOMAIN after.wt
                         /\ Recreated(worker_groups, id, after.wt[id])
                    ELSE id \notin DOMAIN after.wt)
    /\ [][OnWorkerConfigChanged =>
             \A id \in DOMAIN worker_threads :
                IF worker_threads[id].alive
                THEN /\ id \in DOMAIN worker_threads'
                     /\ [worker_threads'[id] EXCEPT !.redundant = worker_threads[id].redundant]
                            = worker_threads[id]
                ELSE \/ id \notin DOMAIN worker_threads'
                     \/ Recreated(worker_groups, id, worker_threads'[id])]_vars

C30_Witness ==
    /\ reconciled
    /\ thread_order = <<WorkerId("A", 1), WorkerId("A", 0)>>
    /\ worker_threads[WorkerId("A", 0)] = NewWorker(WorkerName("A", 0), 1)
    /\ worker_threads[WorkerId("A", 1)].alive
    /\ worker_threads[WorkerId("A", 1)].paused
    /\ worker_threads[WorkerId("A", 1)].work = {1}
    /\ worker_threads[WorkerId("A", 1)].redundant = "pending"

\* ---------------------------------------------------------------------
\* pause_all_worker_threads() called by an API thread, one iteration of
\* `for thread in self.worker_threads` at a time, while run() goes on

UnchangedByScan ==
    UNCHANGED <<pc, task, valid, abort_flag, settings_hash, last_schedule_run, next_run,
                pendingtasks, queue_shutdown, complete_queue, worker_groups,
                library_config, incompatible, over_limit, now, day_of_week,
                seen_config, reconciled, fired, killed, caller, stop_pc>>

\* the for statement creates the iterator on the map itself, not on a copy
PauseAllBegin ==
    /\ pc # "start"
    /\ ~scan.active
    /\ scan' = [active |-> TRUE, keys |-> thread_order, todo |-> thread_order]
    /\ UNCHANGED <<worker_threads, thread_order, idle_workers>>
    /\ UnchangedByScan

\* the iterator is advanced and the body runs.  A map whose size changed
\* since the iterator was created makes the iterator raise RuntimeError, which
\* ends the call; a map of the same size with other keys makes it yield any
\* key of the map, or end.
PauseAllNext ==
    /\ scan.active
    /\ IF Len(thread_order) # Len(scan.keys)
       THEN /\ scan' = NoScan
            /\ UNCHANGED <<worker_threads, thread_order, idle_workers>>
       ELSE IF thread_order # scan.keys
       THEN \/ /\ scan' = NoScan
               /\ UNCHANGED <<worker_threads, thread_order, idle_workers>>
            \/ /\ \E id \in DOMAIN worker_threads : SetPool(PauseWorkerThread(Pool, id))
               /\ UNCHANGED scan
       ELSE IF scan.todo = <<>>
       THEN /\ scan' = NoScan
            /\ UNCHANGED <<worker_threads, thread_order, idle_workers>>
       ELSE /\ SetPool(PauseWorkerThread(Pool, Head(scan.todo)))
            /\ scan' = [scan EXCEPT !.todo = Tail(@)]
    /\ UnchangedByScan

\* run() with its periodic jobs and the workers, a worker terminated through
\* the API, and the API thread pausing all workers
NextIter ==
    \/ DispatchStep
    \/ WorkerStep
    \/ \E id \in DOMAIN worker_threads : TerminateWorker(id)
    \/ Tick
    \/ PauseAllBegin
    \/ PauseAllNext

SpecIter == InitRename /\ [][NextIter]_vars

\* C31: no step inserts a handle in the pool map or deletes one from it while
\* a pass over the map is in progress on the map itself.
C31_NoChangeWhileIterating ==
    [][scan.active => DOMAIN worker_threads' = DOMAIN worker_threads]_vars

\* ---------------------------------------------------------------------
\* Groups that disappear from the configuration store after
\* WorkerGroup.get_all_worker_groups() returned them: `gone` is the set of
\* their ids

\* the groups left in the store
Remaining(G, gone) == SelectSeq(G, LAMBDA g : g.id \notin gone)

\* "for wg in WorkerGroup.get_all_worker_groups()" from group k on, with its
\* try/except: WorkerGroup(group_id=...) raises for a group that is gone, the
\* handler logs and continues with the next group
RECURSIVE RunGroupSchedulesWhile(_, _, _, _, _)
RunGroupSchedulesWhile(S, k, time_now, day, gone) ==
    IF k > Len(S.G) THEN S
    ELSE RunGroupSchedulesWhile(
             IF S.G[k].id \in gone THEN S
             ELSE RunSchedules(S, S.G[k].schedules, k, 1, time_now, day),
             k + 1, time_now, day, gone)

\* manage_event_schedules() while the groups `gone` disappear: the
\* reconciliation at its end enumerates the store again
ManageEventSchedulesWhile(S, t, day, gone) ==
    LET S1 == RunGroupSchedulesWhile([S EXCEPT !.did = FALSE], 1, TimeNow(t), day, gone)
        S2 == [S1 EXCEPT !.G = Remaining(@, gone)]
    IN  IF S1.did THEN [S2 EXCEPT !.P = InitWorkerThreads(S2.P, S2.G)] ELSE S2

\* init_worker_threads() while the groups `gone` disappear: the loops read
\* only the dictionaries enumerated at foreman.py:263, the store is not
\* read again and nothing is caught
InitWorkerThreadsWhile(P, G, gone) == InitWorkerThreads(P, G)

GroupIds == {worker_groups[k].id : k \in 1..Len(worker_groups)}

\* schedule evaluation skips the groups that are gone and processes every
\* other group and schedule
ScheduleEvaluationSkips ==
    \A gone \in SUBSET GroupIds :
        ManageEventSchedulesWhile(SchedulerState, now, day_of_week, gone)
            = ManageEventSchedules([SchedulerState EXCEPT !.G = Remaining(@, gone)],
                                   now, day_of_week)

\* reconciliation skips the groups that are gone and processes every other
\* group
ReconciliationSkips ==
    \A gone \in SUBSET GroupIds :
        InitWorkerThreadsWhile(Pool, worker_groups, gone)
            = InitWorkerThreads(Pool, Remaining(worker_groups, gone))

\* C32: a group that disappears between being enumerated and being used is
\* skipped and every remaining group and schedule is processed, in schedule
\* evaluation and in pool reconciliation: either pass ends as it would on the
\* groups that remain
C32_FaultIsolation == ScheduleEvaluationSkips /\ ReconciliationSkips

\* ---------------------------------------------------------------------
\* Requests for one worker by id: the value returned and the calls issued

\* a return value of True whatever the id
AlwaysTrue(P, id) == TRUE

\* the value pause_worker_thread(worker_id) returns
PauseWorkerThreadReturn(P, id) == id \in DOMAIN P.wt

\* the value resume_worker_thread(worker_id) returns
ResumeWorkerThreadReturn(P, id) == id \in DOMAIN P.wt

\* the value terminate_worker_thread(worker_id) returns
TerminateWorkerThreadReturn(P, id) == id \in DOMAIN P.wt

\* the number of calls of Worker.pause() that pause_worker_thread(worker_id)
\* issues
PauseIssued(P, id) ==
    IF id \notin DOMAIN P.wt THEN 0
    ELSE IF ~IsPaused(P.wt[id]) THEN 1
    ELSE 0

\* the ids a request may carry: those of the groups and one of no group
RequestIds == PoolIds \cup {WorkerId("Z", 0)}

\* the pool P with the handle id replaced by w
WithHandle(P, id, w) == [P EXCEPT !.wt[id] = w]

\* C33: a pause, resume or terminate request for an id that is not in the
\* pool map returns False and leaves the pool as it is; for an id in the map
\* it returns True and changes nothing but the flag of that worker, and a
\* pause request for a worker that is already paused issues no pause
C33_UnknownIdRejected ==
    \A id \in RequestIds :
        LET P == Pool
            w == worker_threads[id]
        IN  IF id \notin DOMAIN worker_threads
            THEN /\ ~PauseWorkerThreadReturn(P, id)
                 /\ ~ResumeWorkerThreadReturn(P, id)
                 /\ ~TerminateWorkerThreadReturn(P, id)
                 /\ PauseIssued(P, id) = 0
                 /\ PauseWorkerThread(P, id) = P
                 /\ ResumeWorkerThread(P, id) = P
                 /\ TerminateWorkerThread(P, id) = P
            ELSE /\ PauseWorkerThreadReturn(P, id)
                 /\ ResumeWorkerThreadReturn(P, id)
                 /\ TerminateWorkerThreadReturn(P, id)
                 /\ PauseIssued(P, id) = (IF w.paused THEN 0 ELSE 1)
                 /\ PauseWorkerThread(P, id) = WithHandle(P, id, [w EXCEPT !.paused = TRUE])
                 /\ ResumeWorkerThread(P, id) = WithHandle(P, id, [w EXCEPT !.paused = FALSE])
                 /\ TerminateWorkerThread(P, id)
                        = WithHandle(P, id, [w EXCEPT !.redundant = "pending"])

C33_Witness ==
    /\ DOMAIN worker_threads = {WorkerId("A", 0)}
    /\ worker_threads[WorkerId("A", 0)].paused
    /\ worker_threads[WorkerId("A", 0)].work = {1}
    /\ WorkerId("A", 1) \notin DOMAIN worker_threads
    /\ worker_groups[1].number_of_workers = 2
    /\ ~reconciled

\* ---------------------------------------------------------------------
\* Status lookup by id

\* int(s) for the string "{name}-{i}" of the id <<name, i>>: a string with
\* letters before the hyphen is no integer literal and int() raises
\* ValueError; with an empty name the string is "-i"
ParseInt(id) ==
    IF id[1] = "" THEN [ok |-> TRUE, value |-> 0 - id[2]]
    ELSE [ok |-> FALSE, value |-> 0]

\* Worker.get_status(): the snapshot of the handle
GetStatus(w) == w

\* Foreman.get_worker_status(worker_id): whether the call raised, and the
\* result it returned otherwise (<<>> is the empty result {}).  The test
\* int(worker_id) == int(thread) is evaluated for every key of the map, in
\* the order of the map.
GetWorkerStatus(wt, order, worker_id) ==
    IF order = <<>> THEN [raised |-> FALSE, result |-> <<>>]
    ELSE IF \/ ~ParseInt(worker_id).ok
            \/ \E i \in 1..Len(order) : ~ParseInt(order[i]).ok
    THEN [raised |-> TRUE, result |-> <<>>]
    ELSE LET hits == {i \in 1..Len(order) :
                         ParseInt(worker_id).value = ParseInt(order[i]).value}
             last == CHOOSE i \in hits : \A j \in hits : j <= i
         IN  [raised |-> FALSE,
              result |-> IF hits = {} THEN <<>> ELSE <<GetStatus(wt[order[last]])>>]

\* C34: the status lookup returns normally for every id; for an id in the
\* pool map it returns the snapshot of that worker, for any other id the
\* empty result
C34_StatusLookup ==
    \A id \in RequestIds :
        LET r == GetWorkerStatus(worker_threads, thread_order, id)
        IN  /\ ~r.raised
            /\ r.result = (IF id \in DOMAIN worker_threads
                           THEN <<GetStatus(worker_threads[id])>>
                           ELSE <<>>)

\* ---------------------------------------------------------------------
\* Availability queries

\* the queries agree with each other and with the scan of the dispatch loop
QueriesAgreeWithDispatch ==
    LET available == Range(FetchAvailableWorkerIds(worker_threads, thread_order))
    IN  /\ available = {id \in DOMAIN worker_threads :
                           /\ worker_threads[id].idle
                           /\ worker_threads[id].alive
                           /\ ~worker_threads[id].paused}
        /\ CheckForIdleWorkers(worker_threads) <=> available # {}
        /\ available = Range(Acceptors(worker_threads, thread_order))

\* C35: fetch_available_worker_ids returns exactly the handles that are
\* idle, alive and not paused, check_for_idle_workers is true exactly when
\* there is one, these are the handles the dispatch scan would accept, and
\* none of them is marked redundant
C35_AvailabilityAgreesWithDispatch ==
    /\ QueriesAgreeWithDispatch
    /\ \A id \in Range(FetchAvailableWorkerIds(worker_threads, thread_order)) :
          worker_threads[id].redundant = "no"
====
